---- MODULE Spec2Model ----
(***************************************************************************)
(* Model of the trim orchestration engine of TRIM                          *)
(* (src/src/main/services/ffmpegService.ts): trimVideo with its            *)
(* copy / reencode / smart dispatch over trimWithMode, and overwriteVideo  *)
(* with its temp-file / backup / rename / rollback sequence.               *)
(*                                                                         *)
(* A path is a record [dir, name, ext], the shape path.parse returns;      *)
(* path.join(dir, name + ext) is the record itself.  The file system is a  *)
(* function from the existing paths to their content.  Times are integers  *)
(* in milliseconds.                                                        *)
(***************************************************************************)
EXTENDS Integers, Sequences, FiniteSets, TLC

VARIABLES
    fs,             \* existing path -> content
    fs0,            \* fs when the call started (history)
    writable,       \* set of directories access(dir, W_OK) accepts
    op,             \* "trim" (trimVideo called directly) or "overwrite"
    request,        \* the request the caller passed
    treq,           \* the TrimRequest trimVideo is running
    pc,             \* position of the call
    tempOutputPath, \* overwriteVideo local
    backupPath,     \* overwriteVideo local
    trimResult,     \* overwriteVideo local
    originalMoved,  \* overwriteVideo local
    caught,         \* error bound by the catch clause of overwriteVideo
    child,          \* the running ffmpeg process of trimWithMode
    stderr,         \* trimWithMode local: chunks captured so far
    resume,         \* where trimVideo continues when the process closes
    settled,        \* what the last trimWithMode promise resolved with
    attempts,       \* history: processes launched, with their exit
    spawned,        \* history: the arguments of each spawn of ffmpeg
    progress,       \* history: values passed to onProgress, with the invocation
    emitted,        \* history: number of stderr chunks the call's processes emitted
    steps,          \* history: steps of overwriteVideo, done or failed
    outcome,        \* how the call settled
    calls,          \* history: calls of the path functions, with their results
    jobs,           \* the calls of invokeWithProgress: jobId, state, events sent
    listeners,      \* renderer: the listeners registered with ipcRenderer.on
    wire,           \* messages sent by the main process, not yet handled by the renderer
    received,       \* history: per call, the jobs whose events its onProgress got
    probePath,      \* trim:probe: the filePath of the call
    ffprobe,        \* what ffprobe does with that file: spawn, exit status, output
    probePc,        \* position of the trim:probe call
    json,           \* probeVideo local: the stdout chunks so far
    probeRuns,      \* history: number of ffprobe processes launched
    probeSettles,   \* history: the calls of resolve and reject, and the throws
    probeOutcome,   \* how the promise of the call settled
    store,          \* recent-files.json: the list of paths it holds
    recency,        \* history: the paths stored by addRecentFile, latest first
    lastCall,       \* history: the last call of addRecentFile and whether it wrote
    totalSeconds,   \* the argument of a call of timestampFromSeconds
    stamp,          \* what the call returned
    uiInputPath,    \* App state: inputPath, "" for null
    probe,          \* App state: probe
    trimRange,      \* App state: trimRange
    uiOutputPath,   \* App state: outputPath
    isTrimming,     \* App state: isTrimming
    loads,          \* the calls of loadVideo and where each stands
    saves,          \* the calls of onSaveCopy / onOverwriteOriginal and where each stands
    overwrites      \* overwriteVideo calls side by side: the paths each has computed

vars == <<fs, fs0, writable, op, request, treq, pc, tempOutputPath, backupPath,
          trimResult, originalMoved, caught, child, stderr, resume, settled,
          attempts, spawned, progress, emitted, steps, outcome, calls,
          jobs, listeners, wire, received,
          probePath, ffprobe, probePc, json, probeRuns, probeSettles, probeOutcome,
          store, recency, lastCall, totalSeconds, stamp,
          uiInputPath, probe, trimRange, uiOutputPath, isTrimming, loads, saves,
          overwrites>>

\* the state of the trim engine but the disk
engineVars == <<fs0, writable, op, request, treq, pc, tempOutputPath, backupPath,
                trimResult, originalMoved, caught, child, stderr, resume, settled,
                attempts, spawned, progress, emitted, steps, outcome>>

\* the state of what surrounds the engine
pathVars == <<calls>>
ipcVars == <<jobs, listeners, wire, received>>
probeVars == <<probePath, ffprobe, probePc, json, probeRuns, probeSettles, probeOutcome>>
recentVars == <<store, recency, lastCall>>
stampVars == <<totalSeconds, stamp>>
uiVars == <<uiInputPath, probe, trimRange, uiOutputPath, isTrimming, loads, saves>>
tempVars == <<overwrites>>
shellVars == <<pathVars, ipcVars, probeVars, recentVars, stampVars, uiVars, tempVars>>

\* what the actions of one part leave alone
pathsFrame == <<engineVars, ipcVars, probeVars, recentVars, stampVars, uiVars, tempVars>>
ipcFrame == <<fs, engineVars, pathVars, probeVars, recentVars, stampVars, uiVars, tempVars>>
probeFrame == <<fs, engineVars, pathVars, ipcVars, recentVars, stampVars, uiVars, tempVars>>
recentFrame == <<fs, engineVars, pathVars, ipcVars, probeVars, stampVars, uiVars, tempVars>>
stampFrame == <<fs, engineVars, pathVars, ipcVars, probeVars, recentVars, uiVars, tempVars>>
uiFrame == <<fs, engineVars, pathVars, ipcVars, probeVars, recentVars, stampVars, tempVars>>
tempFrame == <<engineVars, pathVars, ipcVars, probeVars, recentVars, stampVars, uiVars>>

----------------------------------------------------------------------------
(* Bounds *)

MaxCollide == 2   \* numbered candidates of temp / backup that may pre-exist
MaxChunks == 2    \* stderr chunks the ffmpeg processes of one call emit
MaxJobs == 2      \* calls of invokeWithProgress the renderer makes
MaxEvents == 2    \* progress messages the main process sends in all
MaxStreams == 2   \* streams in the output of ffprobe
MaxPaths == 11    \* distinct files that are opened, one after the other
MaxPending == 2   \* calls of loadVideo and of the save actions that have not returned

----------------------------------------------------------------------------
(* Paths *)

NoPath == [dir |-> "", name |-> "", ext |-> ""]

VideoDir == "C:/v"
OutDir == "C:/out"
Dirs == {VideoDir, OutDir}

SUPPORTED_EXTENSIONS == {".mp4", ".mov", ".mkv", ".webm", ".avi", ".m4v"}

toLowerCase(e) ==
    CASE e = ".MP4" -> ".mp4"
      [] e = ".MOV" -> ".mov"
      [] e = ".MKV" -> ".mkv"
      [] e = ".TXT" -> ".txt"
      [] OTHER -> e

\* path.normalize on a directory, as path.join applies it
normalize(d) ==
    CASE d = "C:/v/." -> "C:/v"
      [] d = "C:/out/../v" -> "C:/v"
      [] OTHER -> d

dirname(p) == p.dir

extname(p) == p.ext

\* the file a path designates: the file system resolves the dot segments
fileOf(p) == [dir |-> normalize(p.dir), name |-> p.name, ext |-> p.ext]

isSupportedVideo(filePath) == toLowerCase(extname(filePath)) \in SUPPORTED_EXTENSIONS

\* a temp name that does not hold the jobId
makeOverwriteTempPathNoJobId(inputPath, jobId) ==
    [dir |-> normalize(inputPath.dir),
     name |-> inputPath.name \o ".trim",
     ext |-> inputPath.ext]

makeOverwriteTempPath(inputPath, jobId) ==
    [dir |-> normalize(inputPath.dir),
     name |-> inputPath.name \o ".trim-" \o jobId,
     ext |-> inputPath.ext]

\* the suffix put after the extension
suggestOutputPathAfterExt(inputPath) ==
    [dir |-> normalize(inputPath.dir), name |-> inputPath.name,
     ext |-> inputPath.ext \o "_trimmed"]

suggestOutputPath(inputPath) ==
    [dir |-> normalize(inputPath.dir), name |-> inputPath.name \o "_trimmed",
     ext |-> inputPath.ext]

\* path.parse of `${inputPath}.bak`: the extension is the part after the last dot
bakPath(inputPath) ==
    [dir |-> inputPath.dir, name |-> inputPath.name \o inputPath.ext, ext |-> ".bak"]

existsSync(files, p) == fileOf(p) \in DOMAIN files

numbered(parsed, index) ==
    [dir |-> normalize(parsed.dir), name |-> parsed.name \o "_" \o ToString(index), ext |-> parsed.ext]

RECURSIVE findLoop(_, _, _, _)
findLoop(files, parsed, candidate, index) ==
    IF existsSync(files, candidate)
    THEN findLoop(files, parsed, numbered(parsed, index), index + 1)
    ELSE candidate

\* the candidate itself, whatever is on the disk
findAvailableOutputPathUnchecked(files, initialPath) == initialPath

\* one look at the disk instead of the loop
findAvailableOutputPathOnce(files, initialPath) ==
    IF existsSync(files, initialPath) THEN numbered(initialPath, 1) ELSE initialPath

\* the numbering started at 0
findAvailableOutputPathFromZero(files, initialPath) ==
    findLoop(files, initialPath, initialPath, 0)

findAvailableOutputPath(files, initialPath) ==
    findLoop(files, initialPath, initialPath, 1)

----------------------------------------------------------------------------
(* File-system primitives of node:fs/promises, when they succeed *)

WriteFile(files, p, c) ==
    [q \in DOMAIN files \cup {fileOf(p)} |-> IF q = fileOf(p) THEN c ELSE files[q]]

RemoveFile(files, p) == [q \in DOMAIN files \ {fileOf(p)} |-> files[q]]

renameDone(files, from, to) ==
    IF fileOf(from) = fileOf(to) THEN files
    ELSE RemoveFile(WriteFile(files, to, files[fileOf(from)]), from)

rmDone(files, p) == RemoveFile(files, p)

----------------------------------------------------------------------------
(* Errors and results *)

NoError == [message |-> "", syscall |-> "", path |-> NoPath, dest |-> NoPath]

Err(msg) == [message |-> msg, syscall |-> "", path |-> NoPath, dest |-> NoPath]

\* a rejected fs call: Node's system error names the syscall and its paths
FsError(syscall, p, d) == [message |-> "EPERM", syscall |-> syscall, path |-> p, dest |-> d]

RangeError == Err("Invalid trim range.")
MissingError == Err("Selected file does not exist.")
ExtensionError == Err("Unsupported file extension for trimming.")
FfmpegNotFound == Err("ffmpeg binary was not found.")
SpawnError == [message |-> "ENOENT", syscall |-> "spawn", path |-> NoPath, dest |-> NoPath]

\* "ffmpeg failed to trim the video.": text of trimWithMode itself, in the shape
\* of the captured chunks, which carry the process that wrote them
DefaultTrimError == <<[by |-> "trimWithMode", times |-> <<>>]>>

NoResult == [ok |-> FALSE, outputPath |-> NoPath, usedMode |-> "", error |-> <<>>]

Pending == [state |-> "pending", result |-> NoResult, error |-> NoError]
Resolved(r) == [state |-> "resolved", result |-> r, error |-> NoError]
Rejected(e) == [state |-> "rejected", result |-> NoResult, error |-> e]

\* validateInputVideo without the existsSync check
validateInputVideoNoExists(files, filePath) ==
    IF ~isSupportedVideo(filePath) THEN ExtensionError
    ELSE NoError

\* validateInputVideo: the error it throws, NoError when it returns
validateInputVideo(files, filePath) ==
    IF ~existsSync(files, filePath) THEN MissingError
    ELSE IF ~isSupportedVideo(filePath) THEN ExtensionError
    ELSE NoError

\* ensureWritableOutputPath: the error access() rejects with, NoError otherwise
ensureWritableOutputPath(w, outputPath) ==
    IF normalize(dirname(outputPath)) \in w THEN NoError
    ELSE FsError("access", [dir |-> dirname(outputPath), name |-> "", ext |-> ""], NoPath)

----------------------------------------------------------------------------
(* Requests and initial states *)

Modes == {"copy", "reencode", "smart"}

JobIds == {"j1"}

Clip == [dir |-> VideoDir, name |-> "clip", ext |-> ".mp4"]
ClipUpper == [dir |-> VideoDir, name |-> "shot", ext |-> ".MOV"]
Notes == [dir |-> VideoDir, name |-> "notes", ext |-> ".txt"]
Gone == [dir |-> VideoDir, name |-> "gone", ext |-> ".mp4"]
Out == [dir |-> OutDir, name |-> "out", ext |-> ".mp4"]

\* another spelling of the same path, as a save dialog or a caller may give it
Respelled(p) == [p EXCEPT !.dir = p.dir \o "/."]

ExistingFiles == {Clip, ClipUpper, Notes}
InputPaths == ExistingFiles \cup {Gone}

Starts == {-1000, 0, 1000}
Ends == {1000, 1001}

\* the names findAvailableOutputPath may find taken
Candidates(initialPath) ==
    {initialPath} \cup {numbered(initialPath, i) : i \in 1..(MaxCollide - 1)}

Colliders(inputPath, jobId) ==
    Candidates(makeOverwriteTempPath(inputPath, jobId)) \cup Candidates(bakPath(inputPath))

InitialFs(inputPath, others) ==
    [p \in ExistingFiles \cup others |-> IF p = inputPath THEN "orig" ELSE "other"]

NoChild == [mode |-> "", opened |-> FALSE]

ProbePending == [state |-> "pending"]
ProbeResolved(r) == [state |-> "resolved", value |-> r]
ProbeRejected(e) == [state |-> "rejected", error |-> e]

NoTool == [spawns |-> TRUE, code |-> 0, stderr |-> "", stdout |-> <<>>]

\* no trim:probe call is running
ProbeIdle ==
    /\ probePath = NoPath
    /\ ffprobe = NoTool
    /\ probePc = "idle"
    /\ json = <<>>
    /\ probeRuns = 0
    /\ probeSettles = <<>>
    /\ probeOutcome = ProbePending

\* no path function has been called
PathsIdle == calls = <<>>

\* the renderer has made no call of invokeWithProgress
IpcIdle ==
    /\ jobs = [k \in 1..MaxJobs |-> [jobId |-> "", state |-> "none", sent |-> 0]]
    /\ listeners = {}
    /\ wire = <<>>
    /\ received = [k \in 1..MaxJobs |-> <<>>]

\* no file has been opened yet: recent-files.json does not exist
RecentIdle ==
    /\ store = <<>>
    /\ recency = <<>>
    /\ lastCall = [path |-> "", wrote |-> FALSE]

NoStamp == [hh |-> -1, mm |-> -1, ss |-> -1]

\* timestampFromSeconds has not been called on its own
StampIdle ==
    /\ totalSeconds = 0
    /\ stamp = NoStamp

NoProbe == [durationSeconds |-> -1]

\* the window as it opens: the initial values of useState, nothing running
UiIdle ==
    /\ uiInputPath = ""
    /\ probe = NoProbe
    /\ trimRange = [start |-> 0, end |-> 0]
    /\ uiOutputPath = ""
    /\ isTrimming = FALSE
    /\ loads = <<>>
    /\ saves = <<>>

\* no overwriteVideo calls side by side
TempIdle == overwrites = <<>>

\* nothing but the engine is running
ShellIdle ==
    PathsIdle /\ IpcIdle /\ ProbeIdle /\ RecentIdle /\ StampIdle /\ UiIdle /\ TempIdle

InitCommon ==
    /\ fs0 = fs
    \* overwriteVideo never consults the directory of Out
    /\ writable \in IF op = "overwrite" THEN {Dirs, {OutDir}} ELSE {Dirs, {VideoDir}, {OutDir}}
    /\ tempOutputPath = NoPath
    /\ backupPath = NoPath
    /\ trimResult = NoResult
    /\ originalMoved = FALSE
    /\ caught = NoError
    /\ child = NoChild
    /\ stderr = <<>>
    /\ resume = ""
    /\ settled = NoResult
    /\ attempts = <<>>
    /\ spawned = <<>>
    /\ progress = <<>>
    /\ emitted = 0
    /\ steps = <<>>
    /\ outcome = Pending
    /\ ShellIdle

InitTrim ==
    /\ op = "trim"
    /\ \E i \in InputPaths, m \in Modes, s \in Starts, e \in Ends :
       \E o \in {Out, i, Respelled(i)} :
          request = [jobId |-> "j1", inputPath |-> i, outputPath |-> o,
                     startSeconds |-> s, endSeconds |-> e, mode |-> m]
    /\ treq = request
    /\ \E others \in SUBSET {Out} : fs = InitialFs(request.inputPath, others)
    /\ pc = "tv_validate"

InitOverwrite ==
    /\ op = "overwrite"
    /\ \E i \in InputPaths, j \in JobIds, m \in Modes, s \in Starts, e \in Ends :
          request = [jobId |-> j, inputPath |-> i, outputPath |-> NoPath,
                     startSeconds |-> s, endSeconds |-> e, mode |-> m]
    /\ treq = request
    /\ \E others \in SUBSET Colliders(request.inputPath, request.jobId) :
          fs = InitialFs(request.inputPath, others)
    /\ pc = "ov_validate"

Init == (InitTrim \/ InitOverwrite) /\ InitCommon

----------------------------------------------------------------------------
(* trimWithMode *)

Null == -1

\* the time= stamps a chunk of ffmpeg's stderr holds, in order, in ms
ChunkTimes == {<<>>, <<500>>, <<3000>>, <<500, 3000>>}

\* the regular expression has no g flag: exec() returns the first match
parseProgressSeconds(raw) == IF raw.times = <<>> THEN Null ELSE raw.times[1]

Zero == [n |-> 0, d |-> 1]
One == [n |-> 1, d |-> 1]

\* the ratio without Math.min(1, ...)
clampRatioNoMin(progressSeconds, totalDuration) ==
    IF progressSeconds <= 0 THEN Zero
    ELSE [n |-> progressSeconds, d |-> totalDuration]

\* Math.max(0, Math.min(1, progressSeconds / totalDuration))
clampRatio(progressSeconds, totalDuration) ==
    IF progressSeconds >= totalDuration THEN One
    ELSE IF progressSeconds <= 0 THEN Zero
    ELSE [n |-> progressSeconds, d |-> totalDuration]

\* Math.max(0.001, request.endSeconds - request.startSeconds)
totalDuration(req) ==
    IF req.endSeconds - req.startSeconds > 1 THEN req.endSeconds - req.startSeconds ELSE 1

\* onProgress(ratio), recorded with the number of the invocation that calls it
onProgress(log, ratio, k) == Append(log, [n |-> ratio.n, d |-> ratio.d, attempt |-> k])

\* timestampFromSeconds takes its argument in ticks of a tenth of a
\* millisecond, one digit more than toFixed(3) keeps
TicksPerMs == 10
TicksPerSecond == 1000 * TicksPerMs

\* seconds.toFixed(3): the nearest millisecond, halves upwards
toFixed3(ticks) == (ticks + TicksPerMs \div 2) \div TicksPerMs

\* Math.max(0, totalSeconds) split into hours, minutes and the seconds of the
\* minute; the seconds field is the result of toFixed(3), in milliseconds
timestampFromSeconds(t) ==
    LET safe == IF t > 0 THEN t ELSE 0
        hours == safe \div (3600 * TicksPerSecond)
        minutes == (safe % (3600 * TicksPerSecond)) \div (60 * TicksPerSecond)
        seconds == safe % (60 * TicksPerSecond)
    IN  [hh |-> hours, mm |-> minutes, ss |-> toFixed3(seconds)]

\* the arguments without -y
ffmpegArgsNoOverwrite(req, mode) ==
    [y |-> FALSE,
     ss |-> timestampFromSeconds(req.startSeconds * TicksPerMs),
     to |-> timestampFromSeconds(req.endSeconds * TicksPerMs),
     i |-> req.inputPath,
     c |-> IF mode = "copy" THEN "copy" ELSE "libx264+aac",
     outputPath |-> req.outputPath]

\* baseArgs, modeArgs and the output path, as options of one ffmpeg run
ffmpegArgs(req, mode) ==
    [y |-> TRUE,
     ss |-> timestampFromSeconds(req.startSeconds * TicksPerMs),
     to |-> timestampFromSeconds(req.endSeconds * TicksPerMs),
     i |-> req.inputPath,
     c |-> IF mode = "copy" THEN "copy" ELSE "libx264+aac",
     outputPath |-> req.outputPath]

\* the arguments of the process that is running, or ran last
Argv == spawned[Len(spawned)]

\* what a finished ffmpeg run leaves at the output path
Trimmed(mode) == IF mode = "copy" THEN "trimmed-copy" ELSE "trimmed-reencode"

TrimmedContents == {Trimmed("copy"), Trimmed("reencode")}

Reject(e) ==
    /\ outcome' = Rejected(e)
    /\ pc' = "done"

\* stderr kept across invocations instead of being a local of each
trimWithModeSharedStderr(mode, awaited) ==
    \E found \in BOOLEAN :
        IF ~found
        THEN /\ Reject(FfmpegNotFound)
             /\ UNCHANGED <<child, stderr, resume, attempts, spawned>>
        ELSE /\ child' = [mode |-> mode, opened |-> FALSE]
             /\ stderr' = stderr
             /\ resume' = awaited
             /\ attempts' = Append(attempts, [mode |-> mode, exit |-> "running"])
             /\ spawned' = Append(spawned, ffmpegArgs(treq, mode))
             /\ pc' = "tw_running"
             /\ UNCHANGED outcome

\* the synchronous part of trimWithMode: resolve the binary, spawn
trimWithMode(mode, awaited) ==
    \E found \in BOOLEAN :
        IF ~found
        THEN /\ Reject(FfmpegNotFound)
             /\ UNCHANGED <<child, stderr, resume, attempts, spawned>>
        ELSE /\ child' = [mode |-> mode, opened |-> FALSE]
             /\ stderr' = <<>>
             /\ resume' = awaited
             /\ attempts' = Append(attempts, [mode |-> mode, exit |-> "running"])
             /\ spawned' = Append(spawned, ffmpegArgs(treq, mode))
             /\ pc' = "tw_running"
             /\ UNCHANGED outcome

Range(seq) == {seq[i] : i \in 1..Len(seq)}

SetExit(log, e) == [log EXCEPT ![Len(log)].exit = e]

\* an error handler that resolves with ok=false instead of rejecting
ChildErrorResolves ==
    /\ pc = "tw_running"
    /\ ~child.opened
    /\ stderr = <<>>
    /\ settled' = [ok |-> FALSE, outputPath |-> treq.outputPath,
                   usedMode |-> child.mode, error |-> DefaultTrimError]
    /\ pc' = "tv_settled"
    /\ child' = NoChild
    /\ attempts' = SetExit(attempts, "error")
    /\ UNCHANGED spawned
    /\ UNCHANGED <<fs, fs0, writable, op, request, treq, tempOutputPath, backupPath,
                   trimResult, originalMoved, caught, stderr, resume, outcome,
                   progress, emitted, steps, shellVars>>

\* child.on("error"): the process could not be spawned
ChildError ==
    /\ pc = "tw_running"
    /\ ~child.opened
    /\ stderr = <<>>
    /\ Reject(SpawnError)
    /\ child' = NoChild
    /\ attempts' = SetExit(attempts, "error")
    /\ UNCHANGED spawned
    /\ UNCHANGED <<fs, fs0, writable, op, request, treq, tempOutputPath, backupPath,
                   trimResult, originalMoved, caught, stderr, resume, settled,
                   progress, emitted, steps, shellVars>>

\* ffmpeg opens its output path and starts writing; with -y it replaces what
\* is there, without -y it leaves an existing file alone and writes nothing.
\* It exits without opening an output whose name is, letter for letter, the
\* name of its input.
FfmpegOpenOutput ==
    /\ pc = "tw_running"
    /\ ~child.opened
    /\ Argv.outputPath # Argv.i
    /\ Argv.y \/ ~existsSync(fs, Argv.outputPath)
    /\ fs' = WriteFile(fs, Argv.outputPath, "partial")
    /\ child' = [child EXCEPT !.opened = TRUE]
    /\ UNCHANGED <<fs0, writable, op, request, treq, pc, tempOutputPath, backupPath,
                   trimResult, originalMoved, caught, stderr, resume, settled,
                   attempts, progress, emitted, steps, outcome, spawned, shellVars>>

\* child.stderr.on("data")
ChildStderr ==
    /\ pc = "tw_running"
    /\ emitted < MaxChunks
    /\ emitted' = emitted + 1
    /\ \E t \in ChunkTimes :
        LET text == [by |-> child.mode, times |-> t]
            progressSeconds == parseProgressSeconds(text)
        IN  /\ stderr' = Append(stderr, text)
            /\ progress' = IF progressSeconds # Null
                           THEN onProgress(progress,
                                           clampRatio(progressSeconds, totalDuration(treq)),
                                           Len(attempts))
                           ELSE progress
    /\ UNCHANGED <<fs, fs0, writable, op, request, treq, pc, tempOutputPath, backupPath,
                   trimResult, originalMoved, caught, child, resume, settled,
                   attempts, steps, outcome, spawned, shellVars>>

\* a close handler that reports success whatever the exit status
ChildCloseAlwaysOk ==
    /\ pc = "tw_running"
    /\ \E code \in {0, 1} :
        /\ code = 0 => child.opened
        /\ progress' = onProgress(progress, One, Len(attempts))
        /\ settled' = [ok |-> TRUE, outputPath |-> treq.outputPath,
                       usedMode |-> child.mode, error |-> <<>>]
        /\ IF code = 0
           THEN fs' = WriteFile(fs, Argv.outputPath, Trimmed(child.mode))
           ELSE UNCHANGED fs
        /\ attempts' = SetExit(attempts, ToString(code))
    /\ UNCHANGED spawned
    /\ child' = NoChild
    /\ pc' = "tv_settled"
    /\ UNCHANGED <<fs0, writable, op, request, treq, tempOutputPath, backupPath,
                   trimResult, originalMoved, caught, stderr, resume, emitted, steps,
                   outcome, shellVars>>

\* a close handler without the final onProgress(1)
ChildCloseNoFinal ==
    /\ pc = "tw_running"
    /\ \E code \in {0, 1} :
        /\ code = 0 => child.opened
        /\ IF code = 0
           THEN /\ fs' = WriteFile(fs, Argv.outputPath, Trimmed(child.mode))
                /\ settled' = [ok |-> TRUE, outputPath |-> treq.outputPath,
                               usedMode |-> child.mode, error |-> <<>>]
                /\ UNCHANGED progress
           ELSE /\ settled' = [ok |-> FALSE, outputPath |-> treq.outputPath,
                               usedMode |-> child.mode,
                               error |-> IF stderr # <<>> THEN stderr ELSE DefaultTrimError]
                /\ UNCHANGED <<fs, progress>>
        /\ attempts' = SetExit(attempts, ToString(code))
    /\ UNCHANGED spawned
    /\ child' = NoChild
    /\ pc' = "tv_settled"
    /\ UNCHANGED <<fs0, writable, op, request, treq, tempOutputPath, backupPath,
                   trimResult, originalMoved, caught, stderr, resume, emitted, steps,
                   outcome, shellVars>>

\* a close handler that calls onProgress(1) whatever the code
ChildCloseAlwaysFinal ==
    /\ pc = "tw_running"
    /\ \E code \in {0, 1} :
        /\ code = 0 => child.opened
        /\ progress' = onProgress(progress, One, Len(attempts))
        /\ IF code = 0
           THEN /\ fs' = WriteFile(fs, Argv.outputPath, Trimmed(child.mode))
                /\ settled' = [ok |-> TRUE, outputPath |-> treq.outputPath,
                               usedMode |-> child.mode, error |-> <<>>]
           ELSE /\ settled' = [ok |-> FALSE, outputPath |-> treq.outputPath,
                               usedMode |-> child.mode,
                               error |-> IF stderr # <<>> THEN stderr ELSE DefaultTrimError]
                /\ UNCHANGED fs
        /\ attempts' = SetExit(attempts, ToString(code))
    /\ UNCHANGED spawned
    /\ child' = NoChild
    /\ pc' = "tv_settled"
    /\ UNCHANGED <<fs0, writable, op, request, treq, tempOutputPath, backupPath,
                   trimResult, originalMoved, caught, stderr, resume, emitted, steps,
                   outcome, shellVars>>

\* a close handler that rejects on a non-zero code, as the one of probeVideo does
ChildCloseRejects ==
    /\ pc = "tw_running"
    /\ \E code \in {0, 1} :
        /\ code = 0 => child.opened
        /\ IF code = 0
           THEN /\ fs' = WriteFile(fs, Argv.outputPath, Trimmed(child.mode))
                /\ progress' = onProgress(progress, One, Len(attempts))
                /\ settled' = [ok |-> TRUE, outputPath |-> treq.outputPath,
                               usedMode |-> child.mode, error |-> <<>>]
                /\ pc' = "tv_settled"
                /\ UNCHANGED outcome
           ELSE /\ Reject(Err("ffmpeg failed to trim the video."))
                /\ UNCHANGED <<fs, progress, settled>>
        /\ attempts' = SetExit(attempts, ToString(code))
    /\ UNCHANGED spawned
    /\ child' = NoChild
    /\ UNCHANGED <<fs0, writable, op, request, treq, tempOutputPath, backupPath,
                   trimResult, originalMoved, caught, stderr, resume, emitted, steps, shellVars>>

\* child.on("close"); an exit of 0 means ffmpeg has written the whole output
ChildClose ==
    /\ pc = "tw_running"
    /\ \E code \in {0, 1} :
        /\ code = 0 => child.opened
        /\ IF code = 0
           THEN /\ fs' = WriteFile(fs, Argv.outputPath, Trimmed(child.mode))
                /\ progress' = onProgress(progress, One, Len(attempts))
                /\ settled' = [ok |-> TRUE, outputPath |-> treq.outputPath,
                               usedMode |-> child.mode, error |-> <<>>]
           ELSE /\ settled' = [ok |-> FALSE, outputPath |-> treq.outputPath,
                               usedMode |-> child.mode,
                               error |-> IF stderr # <<>> THEN stderr ELSE DefaultTrimError]
                /\ UNCHANGED <<fs, progress>>
        /\ attempts' = SetExit(attempts, ToString(code))
    /\ UNCHANGED spawned
    /\ child' = NoChild
    /\ pc' = "tv_settled"
    /\ UNCHANGED <<fs0, writable, op, request, treq, tempOutputPath, backupPath,
                   trimResult, originalMoved, caught, stderr, resume, emitted, steps,
                   outcome, shellVars>>

----------------------------------------------------------------------------
(* trimVideo *)

\* trimVideo without the range check of lines 271-273
TvValidateNoRange ==
    /\ pc = "tv_validate"
    /\ LET e1 == validateInputVideo(fs, treq.inputPath)
           e2 == ensureWritableOutputPath(writable, treq.outputPath)
       IN  IF e1 # NoError THEN Reject(e1) /\ UNCHANGED <<child, stderr, resume, attempts, spawned>>
           ELSE IF e2 # NoError THEN Reject(e2) /\ UNCHANGED <<child, stderr, resume, attempts, spawned>>
           ELSE IF treq.mode = "copy" THEN trimWithMode("copy", "return")
           ELSE IF treq.mode = "reencode" THEN trimWithMode("reencode", "return")
           ELSE trimWithMode("copy", "copyAttempt")
    /\ UNCHANGED <<fs, fs0, writable, op, request, treq, tempOutputPath, backupPath,
                   trimResult, originalMoved, caught, settled, progress, emitted, steps, shellVars>>

\* smart mode without the await of line 286: the re-encode is spawned while
\* the copy process is still running
TvValidateNoAwait ==
    /\ pc = "tv_validate"
    /\ LET bad == treq.startSeconds < 0 \/ treq.endSeconds <= treq.startSeconds
           e1 == validateInputVideo(fs, treq.inputPath)
           e2 == ensureWritableOutputPath(writable, treq.outputPath)
       IN  IF bad THEN Reject(RangeError) /\ UNCHANGED <<child, stderr, resume, attempts, spawned>>
           ELSE IF e1 # NoError THEN Reject(e1) /\ UNCHANGED <<child, stderr, resume, attempts, spawned>>
           ELSE IF e2 # NoError THEN Reject(e2) /\ UNCHANGED <<child, stderr, resume, attempts, spawned>>
           ELSE IF treq.mode = "copy" THEN trimWithMode("copy", "return")
           ELSE IF treq.mode = "reencode" THEN trimWithMode("reencode", "return")
           ELSE /\ child' = [mode |-> "reencode", opened |-> FALSE]
                /\ stderr' = <<>>
                /\ resume' = "return"
                /\ attempts' = attempts \o <<[mode |-> "copy", exit |-> "running"],
                                             [mode |-> "reencode", exit |-> "running"]>>
                /\ spawned' = spawned \o <<ffmpegArgs(treq, "copy"),
                                           ffmpegArgs(treq, "reencode")>>
                /\ pc' = "tw_running"
                /\ UNCHANGED outcome
    /\ UNCHANGED <<fs, fs0, writable, op, request, treq, tempOutputPath, backupPath,
                   trimResult, originalMoved, caught, settled, progress, emitted, steps, shellVars>>

\* lines 271-276, then the dispatch on request.mode up to the first spawn
TvValidate ==
    /\ pc = "tv_validate"
    /\ LET bad == treq.startSeconds < 0 \/ treq.endSeconds <= treq.startSeconds
           e1 == validateInputVideo(fs, treq.inputPath)
           e2 == ensureWritableOutputPath(writable, treq.outputPath)
       IN  IF bad THEN Reject(RangeError) /\ UNCHANGED <<child, stderr, resume, attempts, spawned>>
           ELSE IF e1 # NoError THEN Reject(e1) /\ UNCHANGED <<child, stderr, resume, attempts, spawned>>
           ELSE IF e2 # NoError THEN Reject(e2) /\ UNCHANGED <<child, stderr, resume, attempts, spawned>>
           ELSE IF treq.mode = "copy" THEN trimWithMode("copy", "return")
           ELSE IF treq.mode = "reencode" THEN trimWithMode("reencode", "return")
           ELSE trimWithMode("copy", "copyAttempt")
    /\ UNCHANGED <<fs, fs0, writable, op, request, treq, tempOutputPath, backupPath,
                   trimResult, originalMoved, caught, settled, progress, emitted, steps, shellVars>>

\* overwriteVideo goes on to the renames without looking at trimResult.ok
ReturnTrimResultUnchecked(r) ==
    IF op = "trim"
    THEN /\ outcome' = Resolved(r)
         /\ pc' = "done"
         /\ UNCHANGED <<trimResult, originalMoved, steps>>
    ELSE /\ trimResult' = r
         /\ originalMoved' = FALSE
         /\ steps' = Append(steps, "trim-ok")
         /\ pc' = "ov_rename_original"
         /\ UNCHANGED outcome

\* what the caller of trimVideo does with the result: the IPC caller gets it,
\* overwriteVideo goes on at line 312
ReturnTrimResult(r) ==
    IF op = "trim"
    THEN /\ outcome' = Resolved(r)
         /\ pc' = "done"
         /\ UNCHANGED <<trimResult, originalMoved, steps>>
    ELSE /\ trimResult' = r
         /\ IF ~r.ok
            THEN /\ outcome' = Resolved(r)
                 /\ pc' = "done"
                 /\ UNCHANGED <<originalMoved, steps>>
            ELSE /\ originalMoved' = FALSE
                 /\ steps' = Append(steps, "trim-ok")
                 /\ pc' = "ov_rename_original"
                 /\ UNCHANGED outcome

\* smart mode without the fallback: the copy attempt is returned as it is
TvContinueNoFallback ==
    /\ pc = "tv_settled"
    /\ ReturnTrimResult(settled)
    /\ UNCHANGED <<child, stderr, resume, attempts, spawned>>
    /\ UNCHANGED <<fs, fs0, writable, op, request, treq, tempOutputPath, backupPath,
                   caught, settled, progress, emitted, shellVars>>

\* a general retry: any failed attempt is followed by a re-encode
TvContinueRetryAny ==
    /\ pc = "tv_settled"
    /\ IF ~settled.ok
       THEN /\ trimWithMode("reencode", "return")
            /\ UNCHANGED <<trimResult, originalMoved, steps>>
       ELSE /\ ReturnTrimResult(settled)
            /\ UNCHANGED <<child, stderr, resume, attempts, spawned>>
    /\ UNCHANGED <<fs, fs0, writable, op, request, treq, tempOutputPath, backupPath,
                   caught, settled, progress, emitted, shellVars>>

\* the promise of trimWithMode has resolved: lines 287-291, or the return
TvContinue ==
    /\ pc = "tv_settled"
    /\ IF resume = "copyAttempt" /\ ~settled.ok
       THEN /\ trimWithMode("reencode", "return")
            /\ UNCHANGED <<trimResult, originalMoved, steps>>
       ELSE /\ ReturnTrimResult(settled)
            /\ UNCHANGED <<child, stderr, resume, attempts, spawned>>
    /\ UNCHANGED <<fs, fs0, writable, op, request, treq, tempOutputPath, backupPath,
                   caught, settled, progress, emitted, shellVars>>

----------------------------------------------------------------------------
(* overwriteVideo *)

\* lines 298-299
OvValidate ==
    /\ pc = "ov_validate"
    /\ LET e1 == validateInputVideo(fs, request.inputPath)
           e2 == ensureWritableOutputPath(writable, request.inputPath)
       IN  IF e1 # NoError THEN Reject(e1) /\ UNCHANGED steps
           ELSE IF e2 # NoError THEN Reject(e2) /\ UNCHANGED steps
           ELSE /\ pc' = "ov_paths"
                /\ steps' = Append(steps, "validate")
                /\ UNCHANGED outcome
    /\ UNCHANGED <<fs, fs0, writable, op, request, treq, tempOutputPath, backupPath,
                   trimResult, originalMoved, caught, child, stderr, resume, settled,
                   attempts, progress, emitted, spawned, shellVars>>

\* lines 301-304: both paths, then the call of trimVideo on the temp output
OvPaths ==
    /\ pc = "ov_paths"
    /\ tempOutputPath' =
          findAvailableOutputPath(fs, makeOverwriteTempPath(request.inputPath, request.jobId))
    /\ backupPath' = findAvailableOutputPath(fs, bakPath(request.inputPath))
    /\ treq' = [request EXCEPT !.outputPath = tempOutputPath']
    /\ steps' = Append(steps, "paths")
    /\ pc' = "tv_validate"
    /\ UNCHANGED <<fs, fs0, writable, op, request, trimResult, originalMoved, caught,
                   child, stderr, resume, settled, attempts, progress, emitted, outcome, spawned, shellVars>>

\* a catch clause without the rollback rename
CatchEntryNoRollback(files) == "ov_catch_rm"

\* a catch clause that renames the backup back without looking
CatchEntryUnguarded(files) == "ov_rollback"

\* entry of the catch clause, lines 323-324: which await comes next
CatchEntry(files) ==
    IF originalMoved /\ ~existsSync(files, request.inputPath) /\ existsSync(files, backupPath)
    THEN "ov_rollback"
    ELSE "ov_catch_rm"

\* the original is deleted instead of being kept as a backup
OvRenameOriginalUnlink ==
    /\ pc = "ov_rename_original"
    /\ \E done \in BOOLEAN :
        /\ done => existsSync(fs, request.inputPath)
        /\ IF done
           THEN /\ fs' = rmDone(fs, request.inputPath)
                /\ originalMoved' = TRUE
                /\ steps' = Append(steps, "rename-original")
                /\ pc' = "ov_rename_temp"
                /\ UNCHANGED caught
           ELSE /\ caught' = FsError("rename", request.inputPath, backupPath)
                /\ steps' = Append(steps, "rename-original-failed")
                /\ UNCHANGED <<fs, originalMoved>>
                /\ pc' = CatchEntry(fs)
    /\ UNCHANGED <<fs0, writable, op, request, treq, tempOutputPath, backupPath,
                   trimResult, child, stderr, resume, settled, attempts, progress, emitted, outcome, spawned, shellVars>>

\* lines 318-319
OvRenameOriginal ==
    /\ pc = "ov_rename_original"
    /\ \E done \in BOOLEAN :
        /\ done => existsSync(fs, request.inputPath)
        /\ IF done
           THEN /\ fs' = renameDone(fs, request.inputPath, backupPath)
                /\ originalMoved' = TRUE
                /\ steps' = Append(steps, "rename-original")
                /\ pc' = "ov_rename_temp"
                /\ UNCHANGED caught
           ELSE /\ caught' = FsError("rename", request.inputPath, backupPath)
                /\ steps' = Append(steps, "rename-original-failed")
                /\ UNCHANGED <<fs, originalMoved>>
                /\ pc' = CatchEntry(fs)
    /\ UNCHANGED <<fs0, writable, op, request, treq, tempOutputPath, backupPath,
                   trimResult, child, stderr, resume, settled, attempts, progress, emitted, outcome, spawned, shellVars>>

\* the backup is deleted before the temp output is renamed
OvRenameTempBackupFirst ==
    /\ pc = "ov_rename_temp"
    /\ \E done \in BOOLEAN :
        /\ done => existsSync(fs, tempOutputPath)
        /\ IF done
           THEN /\ fs' = renameDone(rmDone(fs, backupPath), tempOutputPath, request.inputPath)
                /\ steps' = Append(steps, "rename-temp")
                /\ pc' = "ov_rm_backup"
                /\ UNCHANGED caught
           ELSE /\ fs' = rmDone(fs, backupPath)
                /\ caught' = FsError("rename", tempOutputPath, request.inputPath)
                /\ steps' = Append(steps, "rename-temp-failed")
                /\ pc' = CatchEntry(fs')
    /\ UNCHANGED <<fs0, writable, op, request, treq, tempOutputPath, backupPath,
                   trimResult, originalMoved, child, stderr, resume, settled, attempts,
                   progress, emitted, outcome, spawned, shellVars>>

\* line 320
OvRenameTemp ==
    /\ pc = "ov_rename_temp"
    /\ \E done \in BOOLEAN :
        /\ done => existsSync(fs, tempOutputPath)
        /\ IF done
           THEN /\ fs' = renameDone(fs, tempOutputPath, request.inputPath)
                /\ steps' = Append(steps, "rename-temp")
                /\ pc' = "ov_rm_backup"
                /\ UNCHANGED caught
           ELSE /\ caught' = FsError("rename", tempOutputPath, request.inputPath)
                /\ steps' = Append(steps, "rename-temp-failed")
                /\ UNCHANGED fs
                /\ pc' = CatchEntry(fs)
    /\ UNCHANGED <<fs0, writable, op, request, treq, tempOutputPath, backupPath,
                   trimResult, originalMoved, child, stderr, resume, settled, attempts,
                   progress, emitted, outcome, spawned, shellVars>>

\* the backup is left behind on success
OvRmBackupSkipped ==
    /\ pc = "ov_rm_backup"
    /\ steps' = Append(steps, "rm-backup")
    /\ outcome' = Resolved([trimResult EXCEPT !.outputPath = request.inputPath])
    /\ pc' = "done"
    /\ UNCHANGED <<fs, fs0, writable, op, request, treq, tempOutputPath, backupPath,
                   trimResult, originalMoved, caught, child, stderr, resume, settled,
                   attempts, progress, emitted, spawned, shellVars>>

\* lines 321-322: rm(backupPath, { force: true }) and the return
OvRmBackup ==
    /\ pc = "ov_rm_backup"
    /\ \E done \in BOOLEAN :
        IF done
        THEN /\ fs' = rmDone(fs, backupPath)
             /\ steps' = Append(steps, "rm-backup")
             /\ outcome' = Resolved([trimResult EXCEPT !.outputPath = request.inputPath])
             /\ pc' = "done"
             /\ UNCHANGED caught
        ELSE /\ caught' = FsError("rm", backupPath, NoPath)
             /\ steps' = Append(steps, "rm-backup-failed")
             /\ UNCHANGED <<fs, outcome>>
             /\ pc' = CatchEntry(fs)
    /\ UNCHANGED <<fs0, writable, op, request, treq, tempOutputPath, backupPath,
                   trimResult, originalMoved, child, stderr, resume, settled, attempts,
                   progress, emitted, spawned, shellVars>>

\* a failure of the rollback rename is swallowed and the first error rethrown
OvRollbackSwallowed ==
    /\ pc = "ov_rollback"
    /\ \E done \in BOOLEAN :
        /\ done => existsSync(fs, backupPath)
        /\ IF done
           THEN /\ fs' = renameDone(fs, backupPath, request.inputPath)
                /\ steps' = Append(steps, "rollback")
           ELSE /\ steps' = Append(steps, "rollback-failed")
                /\ UNCHANGED fs
    /\ pc' = "ov_catch_rm"
    /\ UNCHANGED <<fs0, writable, op, request, treq, tempOutputPath, backupPath,
                   trimResult, originalMoved, caught, child, stderr, resume, settled,
                   attempts, progress, emitted, outcome, spawned, shellVars>>

\* line 325: the rollback rename; its failure leaves the catch clause
OvRollback ==
    /\ pc = "ov_rollback"
    /\ \E done \in BOOLEAN :
        /\ done => existsSync(fs, backupPath)
        /\ IF done
           THEN /\ fs' = renameDone(fs, backupPath, request.inputPath)
                /\ steps' = Append(steps, "rollback")
                /\ pc' = "ov_catch_rm"
                /\ UNCHANGED outcome
           ELSE /\ Reject(FsError("rename", backupPath, request.inputPath))
                /\ steps' = Append(steps, "rollback-failed")
                /\ UNCHANGED fs
    /\ UNCHANGED <<fs0, writable, op, request, treq, tempOutputPath, backupPath,
                   trimResult, originalMoved, caught, child, stderr, resume, settled,
                   attempts, progress, emitted, spawned, shellVars>>

\* lines 327-328: rm(tempOutputPath, { force: true }), then rethrow
OvCatchRm ==
    /\ pc = "ov_catch_rm"
    /\ \E done \in BOOLEAN :
        IF done
        THEN /\ fs' = rmDone(fs, tempOutputPath)
             /\ steps' = Append(steps, "rm-temp")
             /\ Reject(caught)
        ELSE /\ Reject(FsError("rm", tempOutputPath, NoPath))
             /\ steps' = Append(steps, "rm-temp-failed")
             /\ UNCHANGED fs
    /\ UNCHANGED <<fs0, writable, op, request, treq, tempOutputPath, backupPath,
                   trimResult, originalMoved, caught, child, stderr, resume, settled,
                   attempts, progress, emitted, spawned, shellVars>>

----------------------------------------------------------------------------

Next ==
    \/ TvValidate
    \/ ChildError
    \/ FfmpegOpenOutput
    \/ ChildStderr
    \/ ChildClose
    \/ TvContinue
    \/ OvValidate
    \/ OvPaths
    \/ OvRenameOriginal
    \/ OvRenameTemp
    \/ OvRmBackup
    \/ OvRollback
    \/ OvCatchRm

Spec == Init /\ [][Next]_vars

TypeOK ==
    /\ pc \in {"tv_validate", "tw_running", "tv_settled", "ov_validate", "ov_paths",
               "ov_rename_original", "ov_rename_temp", "ov_rm_backup", "ov_rollback",
               "ov_catch_rm", "done"}
    /\ outcome.state \in {"pending", "resolved", "rejected"}
    /\ (pc = "done") = (outcome.state # "pending")

----------------------------------------------------------------------------
(* overwriteVideo: what is on disk *)

Input == request.inputPath

ContentAt(p) == IF existsSync(fs, p) THEN fs[fileOf(p)] ELSE "none"

\* the call is an overwriteVideo of a file that was there when it started
Overwriting == op = "overwrite" /\ existsSync(fs0, Input)

\* the last ffmpeg process of the call has closed with status 0
LastExitZero == attempts # <<>> /\ attempts[Len(attempts)].exit = "0"

BakFiles(files) == {p \in DOMAIN files : p.ext = ".bak"}

\* C1: at every point of an overwriteVideo call, whichever step fails, the
\* original content is at inputPath or at the backup path, or the trimmed
\* content is at inputPath.
OriginalNeverDestroyed ==
    Overwriting =>
        \/ ContentAt(Input) = "orig"
        \/ ContentAt(backupPath) = "orig"
        \/ ContentAt(Input) \in TrimmedContents

\* the rollback rename failed: the original is only at the backup path
WitnessRollbackFailedOriginalAtBackup ==
    /\ Overwriting
    /\ pc = "done"
    /\ "rollback-failed" \in Range(steps)
    /\ ContentAt(Input) = "none"
    /\ ContentAt(backupPath) = "orig"

\* C2: after overwriteVideo returns ok=true, inputPath holds the trimmed
\* content, nothing is left at the temp path or at the backup path, and the
\* returned outputPath is inputPath.
OverwriteSuccessState ==
    (op = "overwrite" /\ pc = "done" /\ outcome.state = "resolved" /\ outcome.result.ok) =>
        /\ ContentAt(Input) = Trimmed(outcome.result.usedMode)
        /\ ~existsSync(fs, tempOutputPath)
        /\ ~existsSync(fs, backupPath)
        /\ outcome.result.outputPath = Input
        /\ DOMAIN fs = DOMAIN fs0

WitnessOverwriteSucceeded ==
    /\ op = "overwrite"
    /\ pc = "done"
    /\ outcome.state = "resolved"
    /\ outcome.result.ok
    /\ ContentAt(Input) \in TrimmedContents
    /\ "rm-backup" \in Range(steps)

\* C3: while the trim-to-temp step of overwriteVideo has not succeeded, and so
\* when the call ends after a failed trim (ok=false or a rejection), the
\* original is at inputPath unmodified and no .bak file has been created.
TrimFailureKeepsOriginal ==
    (Overwriting /\ ~LastExitZero) =>
        /\ ContentAt(Input) = "orig"
        /\ BakFiles(fs) = BakFiles(fs0)
        /\ \A p \in BakFiles(fs) : fs[p] = fs0[p]

WitnessTrimFailed ==
    /\ Overwriting
    /\ pc = "done"
    /\ "paths" \in Range(steps)
    /\ attempts # <<>>
    /\ ~LastExitZero
    /\ outcome.state = "resolved"
    /\ ~outcome.result.ok

\* the rename of the temp output to inputPath failed after the original was moved
RenameTempFailed ==
    /\ op = "overwrite"
    /\ pc = "done"
    /\ "rename-original" \in Range(steps)
    /\ "rename-temp-failed" \in Range(steps)

RollbackError == FsError("rename", backupPath, Input)

\* C4 as claimed: when the rename of the temp output fails after the original
\* was moved, the call ends rejected with the original back at inputPath, the
\* temp file removed and no backup file.
RollbackAlwaysRestores ==
    RenameTempFailed =>
        /\ outcome.state = "rejected"
        /\ ContentAt(Input) = "orig"
        /\ ~existsSync(fs, tempOutputPath)
        /\ ~existsSync(fs, backupPath)

\* C4 amended: the call rejects; the rollback rename is attempted, and when it
\* succeeds the original is back at inputPath with no backup file, the temp
\* file being removed unless its removal fails; when the rollback rename fails
\* the original stays at the backup path and that failure is the error.
RollbackRestoresUnlessItFails ==
    RenameTempFailed =>
        /\ outcome.state = "rejected"
        /\ IF "rollback-failed" \in Range(steps)
           THEN /\ ContentAt(backupPath) = "orig"
                /\ ~existsSync(fs, Input)
                /\ outcome.error = RollbackError
           ELSE /\ "rollback" \in Range(steps)
                /\ ContentAt(Input) = "orig"
                /\ ~existsSync(fs, backupPath)
                /\ IF "rm-temp-failed" \in Range(steps)
                   THEN existsSync(fs, tempOutputPath)
                   ELSE ~existsSync(fs, tempOutputPath) /\ outcome.error = caught

WitnessRolledBack ==
    /\ RenameTempFailed
    /\ "rollback" \in Range(steps)
    /\ "rm-temp" \in Range(steps)
    /\ ContentAt(Input) = "orig"
    /\ outcome.state = "rejected"

\* C5 as claimed: when both renames have succeeded and the deletion of the
\* backup fails, overwriteVideo still returns ok=true with outputPath = inputPath.
BackupDeletionIsBestEffort ==
    (op = "overwrite" /\ pc = "done" /\ "rename-temp" \in Range(steps)
        /\ "rm-backup-failed" \in Range(steps)) =>
        /\ outcome.state = "resolved"
        /\ outcome.result.ok
        /\ outcome.result.outputPath = Input

\* C6 as claimed: when the trim step of overwriteVideo ends with a non-zero
\* exit, the call returns that failure and the file system is as it was before
\* the call, with no temp output left.
TrimFailureLeavesNoFile ==
    (op = "overwrite" /\ pc = "done" /\ outcome.state = "resolved"
        /\ ~outcome.result.ok) =>
        /\ attempts[Len(attempts)].exit = "1"
        /\ outcome.result = settled
        /\ fs = fs0

\* C7: when the rollback rename fails, the call rejects with an error that
\* names the backup path.
RollbackFailureNamesBackup ==
    (op = "overwrite" /\ pc = "done" /\ "rollback-failed" \in Range(steps)) =>
        /\ outcome.state = "rejected"
        /\ backupPath \in {outcome.error.path, outcome.error.dest}

WitnessRollbackFailureReported ==
    /\ op = "overwrite"
    /\ pc = "done"
    /\ "rollback-failed" \in Range(steps)
    /\ outcome.state = "rejected"
    /\ outcome.error.syscall = "rename"
    /\ ContentAt(backupPath) = "orig"

Canon == <<"validate", "paths", "trim-ok", "rename-original", "rename-temp", "rm-backup">>

IsCanon(x) == x \in Range(Canon)

IsPrefix(a, b) == Len(a) <= Len(b) /\ \A i \in 1..Len(a) : a[i] = b[i]

\* C8: the steps of overwriteVideo happen in the order validation, paths, trim,
\* rename of the original, rename of the temp output, deletion of the backup,
\* none after a failed one; no process is launched before the paths are
\* computed; the original leaves inputPath only when every process has closed
\* and the trim has returned ok=true; the backup is gone only once the trimmed
\* file is at inputPath (or the rollback has put the original back).
StrictStepOrder ==
    op = "overwrite" =>
        /\ IsPrefix(SelectSeq(steps, IsCanon), Canon)
        /\ \A i, j \in 1..Len(steps) : (i < j /\ ~IsCanon(steps[i])) => ~IsCanon(steps[j])
        /\ attempts # <<>> => "paths" \in Range(steps)
        /\ (Overwriting /\ ContentAt(Input) # "orig") =>
              /\ LastExitZero
              /\ child = NoChild
              /\ trimResult.ok
              /\ "trim-ok" \in Range(steps)
        /\ (originalMoved /\ ~existsSync(fs, backupPath)) =>
              \/ ContentAt(Input) \in TrimmedContents
              \/ "rollback" \in Range(steps) /\ ContentAt(Input) = "orig"

WitnessAllStepsInOrder ==
    /\ op = "overwrite"
    /\ pc = "done"
    /\ steps = Canon
    /\ Len(attempts) = 2

\* the result trimVideo returned, to the IPC caller or to overwriteVideo
TrimReturned == IF op = "trim" THEN outcome.state = "resolved" ELSE trimResult # NoResult

TrimReturn == IF op = "trim" THEN outcome.result ELSE trimResult

\* C9: when the copy attempt exits non-zero, mode=copy returns ok=false with
\* usedMode=copy, and mode=smart runs the re-encode and returns its result with
\* usedMode=reencode, ok or not; in smart mode usedMode=copy exactly when the
\* copy attempt exited 0.
SmartFallbackResult ==
    TrimReturned =>
        /\ attempts # <<>>
        /\ (treq.mode = "copy" /\ attempts[1].exit = "1") =>
              /\ ~TrimReturn.ok
              /\ TrimReturn.usedMode = "copy"
        /\ (treq.mode = "smart" /\ attempts[1].exit = "1") =>
              /\ Len(attempts) = 2
              /\ attempts[2].mode = "reencode"
              /\ TrimReturn.usedMode = "reencode"
              /\ TrimReturn.ok = (attempts[2].exit = "0")
        /\ treq.mode = "smart" =>
              /\ attempts[1].mode = "copy"
              /\ (TrimReturn.usedMode = "copy") = (attempts[1].exit = "0")

WitnessFallbackAlsoFailed ==
    /\ op = "trim"
    /\ pc = "done"
    /\ outcome.state = "resolved"
    /\ request.mode = "smart"
    /\ Len(attempts) = 2
    /\ attempts[1].exit = "1"
    /\ attempts[2].exit = "1"
    /\ outcome.result.usedMode = "reencode"

\* C10: a trimVideo call launches at most two processes, a second one only in
\* smart mode, as a re-encode after a copy attempt that exited non-zero; a call
\* that returns a result has launched exactly one process in copy mode, in
\* reencode mode and in smart mode after a copy exit of 0, and exactly two
\* (copy, then reencode) in smart mode after a non-zero copy exit.
LaunchCount ==
    /\ Len(attempts) <= 2
    /\ Len(attempts) = 2 =>
          /\ treq.mode = "smart"
          /\ attempts[1] = [mode |-> "copy", exit |-> "1"]
          /\ attempts[2].mode = "reencode"
    /\ TrimReturned =>
          /\ treq.mode \in {"copy", "reencode"} =>
                Len(attempts) = 1 /\ attempts[1].mode = treq.mode
          /\ (treq.mode = "smart" /\ attempts[1].exit = "0") => Len(attempts) = 1
          /\ (treq.mode = "smart" /\ attempts[1].exit = "1") => Len(attempts) = 2

WitnessTwoLaunches ==
    /\ op = "trim"
    /\ pc = "done"
    /\ request.mode = "smart"
    /\ Len(attempts) = 2
    /\ attempts[2].exit = "0"
    /\ outcome.state = "resolved"
    /\ outcome.result.ok

----------------------------------------------------------------------------
(* trimVideo: errors, processes, progress *)

\* C11: in smart mode, once the re-encode attempt was made, the error of the
\* returned result holds no text the copy process wrote.
FallbackErrorIsReencodeOnly ==
    (TrimReturned /\ Len(attempts) = 2) =>
        \A i \in 1..Len(TrimReturn.error) : TrimReturn.error[i].by # "copy"

\* both attempts wrote to stderr and both failed
WitnessBothAttemptsWrote ==
    /\ TrimReturned
    /\ Len(attempts) = 2
    /\ emitted = 2
    /\ ~TrimReturn.ok
    /\ Len(TrimReturn.error) = 1
    /\ TrimReturn.error[1].by = "reencode"

Running == {i \in 1..Len(attempts) : attempts[i].exit = "running"}

\* C12: at most one process of the job is running at any time, it is the last
\* one launched, and the re-encode process of smart mode is launched only
\* after the copy process has closed.
OneProcessAtATime ==
    /\ Cardinality(Running) <= 1
    /\ Running \subseteq {Len(attempts)}
    /\ (Running # {}) = (child # NoChild)
    /\ Len(attempts) = 2 => attempts[1].exit = "1"

WitnessReencodeRunsAfterCopyClosed ==
    /\ Len(attempts) = 2
    /\ attempts[1] = [mode |-> "copy", exit |-> "1"]
    /\ attempts[2] = [mode |-> "reencode", exit |-> "running"]
    /\ child.mode = "reencode"
    /\ child.opened

InvalidRange == request.startSeconds < 0 \/ request.endSeconds <= request.startSeconds

\* the directory the output of the call is written to
DestinationDir == IF op = "trim" THEN request.outputPath.dir ELSE Input.dir

AccessError == FsError("access", [dir |-> DestinationDir, name |-> "", ext |-> ""], NoPath)

\* C13 as claimed: every request with startSeconds < 0 or endSeconds <=
\* startSeconds is rejected with the range error, no process launched, no file
\* created, renamed or deleted.
InvalidRangeGivesRangeError ==
    InvalidRange =>
        /\ attempts = <<>>
        /\ fs = fs0
        /\ pc = "done" => outcome = Rejected(RangeError)

\* C13 amended: such a request is rejected, no process launched and no file
\* touched; the error is the range error for trimVideo, and for overwriteVideo
\* when the input exists, has a supported extension and lies in a writable
\* directory; otherwise overwriteVideo rejects with that earlier validation error.
InvalidRangeRejected ==
    InvalidRange =>
        /\ attempts = <<>>
        /\ fs = fs0
        /\ pc \in {"tv_validate", "ov_validate", "ov_paths", "done"}
        /\ pc = "done" =>
              outcome = Rejected(
                  IF op = "trim" THEN RangeError
                  ELSE IF ~existsSync(fs0, Input) THEN MissingError
                  ELSE IF ~isSupportedVideo(Input) THEN ExtensionError
                  ELSE IF normalize(DestinationDir) \notin writable THEN AccessError
                  ELSE RangeError)

WitnessOverwriteRangeRejected ==
    /\ op = "overwrite"
    /\ InvalidRange
    /\ pc = "done"
    /\ "paths" \in Range(steps)
    /\ outcome = Rejected(RangeError)

\* the six supported extensions, in the spellings the inputs use
SupportedAnyCase ==
    {".mp4", ".MP4", ".mov", ".MOV", ".mkv", ".MKV", ".webm", ".avi", ".m4v"}

BadInput ==
    \/ ~existsSync(fs0, Input)
    \/ Input.ext \notin SupportedAnyCase
    \/ normalize(DestinationDir) \notin writable

InputErrors == {MissingError, ExtensionError, AccessError}

\* C14: a missing input, an input whose extension is not one of the six
\* (whatever its case) or an unwritable destination directory makes trimVideo
\* and overwriteVideo reject with no process launched and no file touched, the
\* validation running once; a request with none of these defects is never
\* rejected for one of them.
BadInputRejected ==
    /\ BadInput =>
          /\ attempts = <<>>
          /\ fs = fs0
          /\ steps = <<>>
          /\ pc \in {"tv_validate", "ov_validate", "done"}
          /\ pc = "done" => outcome.state = "rejected"
          /\ (pc = "done" /\ ~InvalidRange) => outcome.error \in InputErrors
    /\ (~BadInput /\ pc = "done") => outcome.error \notin InputErrors

WitnessUnwritableRejected ==
    /\ pc = "done"
    /\ ~InvalidRange
    /\ existsSync(fs0, Input)
    /\ Input.ext = ".MOV"
    /\ outcome = Rejected(AccessError)
    /\ attempts = <<>>

ValidationErrors == {RangeError} \cup InputErrors

InvocationErrors == {FfmpegNotFound, SpawnError}

\* C15: trimVideo rejects only with a validation error (nothing launched) or
\* a tool-invocation error; a process that closed with a non-zero code gives a
\* returned result with ok=false and a non-empty error, never a rejection,
\* unless the fallback that follows it in smart mode cannot be invoked.
FailureChannels ==
    (op = "trim" /\ pc = "done") =>
        /\ outcome.state = "rejected" =>
              /\ outcome.error \in ValidationErrors \cup InvocationErrors
              /\ outcome.error \in ValidationErrors => attempts = <<>>
              /\ outcome.error = SpawnError =>
                    attempts # <<>> /\ attempts[Len(attempts)].exit = "error"
              /\ outcome.error = FfmpegNotFound =>
                    \/ attempts = <<>>
                    \/ request.mode = "smart" /\ attempts = <<[mode |-> "copy", exit |-> "1"]>>
        /\ outcome.state = "resolved" =>
              /\ attempts # <<>>
              /\ attempts[Len(attempts)].exit \in {"0", "1"}
              /\ outcome.result.ok = (attempts[Len(attempts)].exit = "0")
              /\ ~outcome.result.ok => outcome.result.error # <<>>
        /\ ( /\ attempts # <<>>
             /\ attempts[Len(attempts)].exit = "1"
             /\ ~(request.mode = "smart" /\ Len(attempts) = 1) ) =>
              outcome.state = "resolved"

\* a copy-mode call whose process wrote to stderr and exited 1
WitnessExecutionFailureReturned ==
    /\ op = "trim"
    /\ pc = "done"
    /\ request.mode = "copy"
    /\ attempts = <<[mode |-> "copy", exit |-> "1"]>>
    /\ outcome.state = "resolved"
    /\ ~outcome.result.ok
    /\ Len(outcome.result.error) = 2
    /\ outcome.result.error[1].by = "copy"

\* C16: a tool-invocation error ends the call: a process that could not be
\* spawned is the last one launched and the call is rejected with its error;
\* a call rejected because the binary was not found launches nothing more; in
\* smart mode a spawn failure of the copy attempt is not followed by a re-encode.
InvocationErrorIsFatal ==
    /\ \A i \in 1..Len(attempts) :
          attempts[i].exit = "error" =>
              /\ i = Len(attempts)
              /\ pc = "done"
              /\ child = NoChild
              /\ outcome = Rejected(SpawnError)
    /\ outcome.error \in InvocationErrors =>
          /\ pc = "done"
          /\ outcome.state = "rejected"
          /\ Running = {}
    /\ (treq.mode = "smart" /\ attempts # <<>> /\ attempts[1].exit = "error") =>
          Len(attempts) = 1

WitnessCopySpawnFailedInSmart ==
    /\ request.mode = "smart"
    /\ attempts = <<[mode |-> "copy", exit |-> "error"]>>
    /\ pc = "done"
    /\ outcome = Rejected(SpawnError)

\* a <= b for two ratios
Leq(a, b) == a.n * b.d <= b.n * a.d

Failed == {"1", "error"}

\* C17 as claimed: within one invocation of trimWithMode every ratio passed
\* to onProgress is at least every ratio passed before it.
ProgressMonotone ==
    \A i, j \in 1..Len(progress) :
        (i < j /\ progress[i].attempt = progress[j].attempt) =>
            Leq(progress[i], progress[j])

\* C18: when an invocation ends with exit status 0, its last progress event is
\* exactly 1, and the event is there when the ok=true result is.
FinalProgressIsOne ==
    /\ \A i \in 1..Len(attempts) :
          attempts[i].exit = "0" =>
              /\ progress # <<>>
              /\ progress[Len(progress)] = [n |-> 1, d |-> 1, attempt |-> i]
    /\ (settled.ok \/ trimResult.ok \/ outcome.result.ok) =>
          /\ progress # <<>>
          /\ progress[Len(progress)].n = 1
          /\ progress[Len(progress)].d = 1

\* a stamp below the end of the window was reported, then the process exited 0
WitnessFinalOneAfterPartial ==
    /\ settled.ok
    /\ Len(progress) = 2
    /\ progress[1].n < progress[1].d
    /\ progress[2] = [n |-> 1, d |-> 1, attempt |-> 1]
    /\ attempts = <<[mode |-> "reencode", exit |-> "0"]>>

\* C19 as claimed: once an attempt of the job has ended in failure, no
\* progress event of the job follows, in every mode.
NoProgressAfterAnyFailure ==
    \A k \in 1..Len(progress) : \A i \in 1..Len(attempts) :
        attempts[i].exit \in Failed => progress[k].attempt <= i

\* C19 amended: every progress event comes from the process that is running,
\* in a data event or at its close with status 0; an attempt that has failed,
\* and a job whose last attempt has failed, report nothing more. (The
\* re-encode that smart mode launches after a failed copy reports its own.)
NoProgressFromFailedAttempt ==
    [][progress' # progress =>
          /\ attempts # <<>>
          /\ attempts[Len(attempts)].exit = "running"
          /\ Len(attempts') = Len(attempts)
          /\ attempts'[Len(attempts)].exit \in {"running", "0"}
          /\ Len(progress') = Len(progress) + 1
          /\ progress'[Len(progress')].attempt = Len(attempts)]_vars

\* the re-encode of smart mode reports progress after the copy attempt failed
WitnessFallbackReportsProgress ==
    /\ Len(attempts) = 2
    /\ attempts[1].exit = "1"
    /\ attempts[2].exit = "1"
    /\ pc = "done"
    /\ \E k \in 1..Len(progress) : progress[k].attempt = 2
    /\ \E k \in 1..Len(progress) : progress[k].attempt = 1

\* C20: every value passed to onProgress lies in [0, 1].
ProgressInUnitInterval ==
    \A k \in 1..Len(progress) :
        /\ progress[k].d > 0
        /\ 0 <= progress[k].n
        /\ progress[k].n <= progress[k].d

\* a stamp beyond the window, on a window of one millisecond, reported as 1
WitnessStampBeyondWindow ==
    /\ child # NoChild
    /\ treq.endSeconds - treq.startSeconds = 1
    /\ stderr # <<>>
    /\ stderr[Len(stderr)].times = <<3000>>
    /\ progress # <<>>
    /\ progress[Len(progress)].n = progress[Len(progress)].d

\* the time= stamps in a sequence of chunks
RECURSIVE StampCount(_)
StampCount(chunks) ==
    IF chunks = <<>> THEN 0
    ELSE Len(Head(chunks).times) + StampCount(Tail(chunks))

\* the progress events of the k-th invocation
EventsOf(k) == {i \in 1..Len(progress) : progress[i].attempt = k}

\* C31 as claimed: while the tool runs, onProgress has been invoked once for
\* every line with a time= stamp that the tool has emitted so far, also when
\* several such lines arrived in one chunk.
ProgressOncePerLine ==
    pc = "tw_running" => Cardinality(EventsOf(Len(attempts))) = StampCount(stderr)

----------------------------------------------------------------------------
(* overwriteVideo: the rename of the original fails *)

RenameOriginalFailed ==
    /\ op = "overwrite"
    /\ "rename-original-failed" \in Range(steps)

RenameOriginalError == FsError("rename", Input, backupPath)

\* C34 as claimed: when the rename of the original to the backup path fails,
\* the call rejects with that error, the original is at inputPath unmodified,
\* no backup file exists, the temp output has been removed and no rollback
\* rename is attempted.
RenameOriginalFailureCleansUp ==
    (RenameOriginalFailed /\ pc = "done") =>
        /\ outcome = Rejected(RenameOriginalError)
        /\ ContentAt(Input) = "orig"
        /\ ~existsSync(fs, backupPath)
        /\ ~existsSync(fs, tempOutputPath)
        /\ Range(steps) \cap {"rollback", "rollback-failed"} = {}

\* C34 amended: from the failure on the original is at inputPath unmodified,
\* no backup file exists and no rollback rename is attempted; the call
\* rejects, with the error of the rename and the temp output removed when the
\* removal succeeds, with the error of the removal and the temp output left
\* behind when it fails.
RenameOriginalFailureKeepsOriginal ==
    RenameOriginalFailed =>
        /\ ContentAt(Input) = "orig"
        /\ ~existsSync(fs, backupPath)
        /\ ~originalMoved
        /\ Range(steps) \cap {"rollback", "rollback-failed"} = {}
        /\ pc \in {"ov_catch_rm", "done"}
        /\ pc = "done" =>
              IF "rm-temp-failed" \in Range(steps)
              THEN /\ outcome = Rejected(FsError("rm", tempOutputPath, NoPath))
                   /\ existsSync(fs, tempOutputPath)
              ELSE /\ outcome = Rejected(RenameOriginalError)
                   /\ ~existsSync(fs, tempOutputPath)

\* the rename of the original failed, the temp output was removed and the
\* call rejected with the error of the rename
WitnessRenameOriginalFailed ==
    /\ RenameOriginalFailed
    /\ pc = "done"
    /\ "rm-temp" \in Range(steps)
    /\ outcome = Rejected(RenameOriginalError)
    /\ fs = fs0

\* the files an overwriteVideo call may change
OwnFiles == {Input, tempOutputPath, backupPath}

\* C35: at every point of an overwriteVideo call and in every outcome, each
\* file other than the input, the temp output and the backup of the call is
\* there exactly when it was there before, with the same content; this
\* includes a file that had the name inputPath + '.bak' or the un-numbered
\* temp name before the call.
OverwriteChangesOnlyOwnFiles ==
    op = "overwrite" =>
        /\ \A p \in DOMAIN fs0 \ {Input} : existsSync(fs, p) /\ fs[p] = fs0[p]
        /\ DOMAIN fs \ DOMAIN fs0 \subseteq OwnFiles

\* an overwrite succeeded in a directory that already held a file with the
\* .bak name and one with the un-numbered temp name: both are as they were
WitnessForeignBakAndTempKept ==
    /\ Overwriting
    /\ pc = "done"
    /\ outcome.state = "resolved"
    /\ outcome.result.ok
    /\ ContentAt(Input) \in TrimmedContents
    /\ existsSync(fs0, bakPath(Input))
    /\ existsSync(fs0, makeOverwriteTempPath(Input, request.jobId))
    /\ ContentAt(bakPath(Input)) = "other"
    /\ ContentAt(makeOverwriteTempPath(Input, request.jobId)) = "other"
    /\ backupPath = numbered(bakPath(Input), 1)

----------------------------------------------------------------------------
(* trimVideo: the source file *)

\* C36 as claimed: for every request that passes validation ffmpeg is never
\* launched with an output path that designates the file at inputPath, and
\* that file has the same content after a trimVideo call as before it, in
\* every outcome.
SourceIsNeverTheOutput ==
    op = "trim" =>
        /\ \A k \in 1..Len(spawned) : fileOf(spawned[k].outputPath) # fileOf(spawned[k].i)
        /\ existsSync(fs0, Input) => ContentAt(Input) = fs0[Input]

----------------------------------------------------------------------------
(* trimVideo: the result and the output file *)

\* C21: every TrimResult trimVideo returns has ok=true exactly when the last
\* process launched for the call exited with status 0, names the strategy of
\* that process in usedMode, carries a non-empty error when ok=false, and is
\* never ok=true over a partially written output.
ResultReflectsLastProcess ==
    /\ TrimReturned =>
          /\ attempts # <<>>
          /\ TrimReturn.ok = (attempts[Len(attempts)].exit = "0")
          /\ TrimReturn.usedMode = attempts[Len(attempts)].mode
          /\ TrimReturn.outputPath = treq.outputPath
          /\ ~TrimReturn.ok => TrimReturn.error # <<>>
          /\ TrimReturn.ok => TrimReturn.error = <<>>
    /\ (pc = "tv_settled" /\ settled.ok) =>
          ContentAt(settled.outputPath) = Trimmed(settled.usedMode)
    /\ (op = "trim" /\ TrimReturned /\ TrimReturn.ok) =>
          ContentAt(TrimReturn.outputPath) = Trimmed(TrimReturn.usedMode)

\* both processes of a smart call exited non-zero after writing to the output:
\* ok=false is returned while a partial file is at outputPath
WitnessPartialReportedAsFailure ==
    /\ op = "trim"
    /\ TrimReturned
    /\ ~TrimReturn.ok
    /\ TrimReturn.usedMode = "reencode"
    /\ attempts = <<[mode |-> "copy", exit |-> "1"], [mode |-> "reencode", exit |-> "1"]>>
    /\ ContentAt(TrimReturn.outputPath) = "partial"

\* C25: in smart mode the re-encode is launched with the inputPath, outputPath,
\* start and end of the failed copy attempt and with -y, so a partial file the
\* copy attempt left at outputPath is replaced and after a successful fallback
\* outputPath holds the re-encode output only.
FallbackOverwritesPartial ==
    /\ Len(spawned) = Len(attempts)
    /\ \A k \in 1..Len(spawned) :
          /\ spawned[k].y
          /\ spawned[k].i = treq.inputPath
          /\ spawned[k].outputPath = treq.outputPath
          /\ spawned[k].ss = timestampFromSeconds(treq.startSeconds * TicksPerMs)
          /\ spawned[k].to = timestampFromSeconds(treq.endSeconds * TicksPerMs)
    /\ Len(spawned) = 2 =>
          /\ spawned[1].c = "copy"
          /\ spawned[2] = [spawned[1] EXCEPT !.c = "libx264+aac"]
    /\ (Len(attempts) = 2 /\ child # NoChild /\ child.opened) =>
          ContentAt(treq.outputPath) = "partial"
    /\ (Len(attempts) = 2 /\ attempts[2].exit = "0" /\ pc = "tv_settled") =>
          ContentAt(treq.outputPath) = Trimmed("reencode")

\* the re-encode has been launched over the partial file of the copy attempt
WitnessFallbackLaunchedOverPartial ==
    /\ treq.mode = "smart"
    /\ attempts = <<[mode |-> "copy", exit |-> "1"], [mode |-> "reencode", exit |-> "running"]>>
    /\ ~child.opened
    /\ ContentAt(treq.outputPath) = "partial"
    /\ ContentAt(treq.outputPath) # ContentAt(treq.inputPath)

----------------------------------------------------------------------------
(* Paths computed ahead of their use, with another process on the same disk *)

\* the paths the call has computed, or was given, and will write or rename to
ComputedPaths ==
    IF op = "trim" THEN {request.outputPath} ELSE {tempOutputPath, backupPath} \ {NoPath}

\* another process creates a file at such a path, after it was found free
OtherProcessCreates ==
    /\ pc # "done"
    /\ \A q \in DOMAIN fs : fs[q] # "foreign"
    /\ \E p \in ComputedPaths :
          /\ ~existsSync(fs, p)
          /\ fs' = WriteFile(fs, p, "foreign")
    /\ UNCHANGED <<fs0, writable, op, request, treq, pc, tempOutputPath, backupPath,
                   trimResult, originalMoved, caught, child, stderr, resume, settled,
                   attempts, spawned, progress, emitted, steps, outcome, shellVars>>

NextRace == Next \/ OtherProcessCreates

SpecRace == Init /\ [][NextRace]_vars

\* C23 as claimed: a file another process created at a temp, backup or
\* suggested output path, after the path was computed, is never overwritten
\* or removed by the engine.
ForeignFileNeverOverwritten ==
    [][\A p \in DOMAIN fs :
          fs[p] = "foreign" => (existsSync(fs', p) /\ fs'[p] = "foreign")]_vars

----------------------------------------------------------------------------
(* The length of the output *)

\* the time between two frames of the input, and the distances between
\* keyframes an input may have (every frame a keyframe, or one in fifty)
FrameInterval == 40
KeyframeIntervals == {FrameInterval, 50 * FrameInterval}

Abs(x) == IF x < 0 THEN 0 - x ELSE x

\* the length of what -ss start -to end leaves at the output: -c copy cannot
\* cut inside a group of pictures and starts at the keyframe at or before
\* start, libx264 decodes from there and encodes from start on
OutputDuration(content, req, keyframeInterval) ==
    IF content = Trimmed("copy")
    THEN req.endSeconds - (req.startSeconds \div keyframeInterval) * keyframeInterval
    ELSE req.endSeconds - req.startSeconds

\* C28 as claimed: the output of a smart-mode trimVideo is within one frame
\* interval of end - start, also when the copy attempt exited 0 and was
\* returned without a re-encode.
SmartDurationWithinOneFrame ==
    (op = "trim" /\ treq.mode = "smart" /\ TrimReturned /\ TrimReturn.ok) =>
        \A k \in KeyframeIntervals :
            Abs(OutputDuration(ContentAt(TrimReturn.outputPath), treq, k)
                  - (treq.endSeconds - treq.startSeconds)) <= FrameInterval

----------------------------------------------------------------------------
(* The path functions on their own: suggestOutputPath, findAvailableOutputPath *)

MaxCalls == 3    \* calls of the path functions in one run

\* a path as the caller writes it: a directory and a file name, the name as
\* its parts between dots ("clip.mp4" is <<"clip", "mp4">>)
RawPaths ==
    {[dir |-> "C:/v", base |-> <<"clip", "mp4">>],
     [dir |-> "C:/v/.", base |-> <<"clip", "mp4">>],
     [dir |-> "C:/out/../v", base |-> <<"shot", "final", "MOV">>],
     [dir |-> "C:/v", base |-> <<"README">>],
     [dir |-> "C:/v", base |-> <<"", "hidden">>],
     [dir |-> "", base |-> <<"clip", "mp4">>]}

RECURSIVE joinDots(_)
joinDots(parts) ==
    IF Len(parts) = 1 THEN parts[1] ELSE parts[1] \o "." \o joinDots(Tail(parts))

\* path.parse: the extension runs from the last dot of the name, unless that
\* dot is its first character
parse(raw) ==
    LET n == Len(raw.base)
        hasExt == n >= 2 /\ ~(n = 2 /\ raw.base[1] = "")
    IN  [dir |-> raw.dir,
         name |-> IF hasExt THEN joinDots(SubSeq(raw.base, 1, n - 1)) ELSE joinDots(raw.base),
         ext |-> IF hasExt THEN "." \o raw.base[n] ELSE ""]

\* the path as a string
format(p) == p.dir \o "/" \o p.name \o p.ext

\* what findAvailableOutputPath is called with: a suggestion, as
\* trim:suggest-output-path passes it on, and the temp name of an overwrite
FindCandidates == {suggestOutputPath(Clip), makeOverwriteTempPath(Clip, "j1")}

NoRequest ==
    [jobId |-> "", inputPath |-> NoPath, outputPath |-> NoPath,
     startSeconds |-> 0, endSeconds |-> 0, mode |-> ""]

\* no trim or overwrite call is running
EngineIdle ==
    /\ fs0 = fs
    /\ writable = Dirs
    /\ op = "none"
    /\ request = NoRequest
    /\ treq = NoRequest
    /\ pc = "idle"
    /\ tempOutputPath = NoPath
    /\ backupPath = NoPath
    /\ trimResult = NoResult
    /\ originalMoved = FALSE
    /\ caught = NoError
    /\ child = NoChild
    /\ stderr = <<>>
    /\ resume = ""
    /\ settled = NoResult
    /\ attempts = <<>>
    /\ spawned = <<>>
    /\ progress = <<>>
    /\ emitted = 0
    /\ steps = <<>>
    /\ outcome = Pending

InitPaths ==
    /\ \E taken \in SUBSET FindCandidates :
          fs = [q \in {Clip} \cup taken |-> "other"]
    /\ ShellIdle
    /\ EngineIdle

\* a call of suggestOutputPath(inputPath)
CallSuggestOutputPath ==
    /\ Len(calls) < MaxCalls
    /\ \E raw \in RawPaths :
          calls' = Append(calls, [fn |-> "suggestOutputPath", arg |-> parse(raw),
                                  result |-> suggestOutputPath(parse(raw)),
                                  files |-> DOMAIN fs])
    /\ UNCHANGED <<fs, pathsFrame>>

\* a call of findAvailableOutputPath(initialPath)
CallFindAvailableOutputPath ==
    /\ Len(calls) < MaxCalls
    /\ \E c \in FindCandidates :
          calls' = Append(calls, [fn |-> "findAvailableOutputPath", arg |-> c,
                                  result |-> findAvailableOutputPath(fs, c),
                                  files |-> DOMAIN fs])
    /\ UNCHANGED <<fs, pathsFrame>>

\* a file is created at a path a call returned
CreateFile ==
    /\ \E k \in 1..Len(calls) : \E q \in {calls[k].result} :
          /\ ~existsSync(fs, q)
          /\ fs' = WriteFile(fs, q, "other")
    /\ UNCHANGED <<calls, pathsFrame>>

NextPaths == CallSuggestOutputPath \/ CallFindAvailableOutputPath \/ CreateFile

SpecPaths == InitPaths /\ [][NextPaths]_vars

Finds == {k \in 1..Len(calls) : calls[k].fn = "findAvailableOutputPath"}

\* C22: findAvailableOutputPath is idempotent while the directory does not
\* change: two calls with one candidate and the same files on disk return the
\* same path; once a file exists at a returned path, a later call with that
\* candidate returns another path.
FindIsIdempotent ==
    \A i, j \in Finds :
        (i < j /\ calls[i].arg = calls[j].arg) =>
            /\ calls[i].files = calls[j].files => calls[j].result = calls[i].result
            /\ calls[i].result \in calls[j].files => calls[j].result # calls[i].result

\* three calls with one candidate: twice on an unchanged directory, then after
\* files were created at the returned path and at the one numbered 1
WitnessThirdCallDiffers ==
    /\ Len(calls) = 3
    /\ Finds = {1, 2, 3}
    /\ calls[1].arg = calls[2].arg /\ calls[2].arg = calls[3].arg
    /\ calls[1].files = calls[2].files
    /\ calls[2].result = calls[1].result
    /\ calls[3].files = calls[2].files \cup {calls[2].result}
    /\ calls[3].result # calls[2].result
    /\ calls[1].result # calls[1].arg

\* C38: findAvailableOutputPath returns the candidate itself when no file
\* exists there, and otherwise <name>_<n><ext> for the smallest n >= 1 at which
\* no file exists; the returned path does not exist at the moment of return,
\* and the search ends within as many numbers as the directory holds files.
FindReturnsFirstFree ==
    \A k \in Finds :
        /\ fileOf(calls[k].result) \notin calls[k].files
        /\ fileOf(calls[k].arg) \notin calls[k].files => calls[k].result = calls[k].arg
        /\ fileOf(calls[k].arg) \in calls[k].files =>
              \E n \in 1..Cardinality(calls[k].files) :
                  /\ calls[k].result = numbered(calls[k].arg, n)
                  /\ \A m \in 1..(n - 1) :
                        fileOf(numbered(calls[k].arg, m)) \in calls[k].files

\* a call that found the candidate and the name numbered 1 taken and returned
\* the name numbered 2, and a call that returned its free candidate
WitnessSecondNumberReturned ==
    /\ \E k \in Finds :
          /\ fileOf(calls[k].arg) \in calls[k].files
          /\ fileOf(numbered(calls[k].arg, 1)) \in calls[k].files
          /\ calls[k].result = numbered(calls[k].arg, 2)
    /\ \E k \in Finds :
          /\ fileOf(calls[k].arg) \notin calls[k].files
          /\ calls[k].result = calls[k].arg

Suggests == {k \in 1..Len(calls) : calls[k].fn = "suggestOutputPath"}

\* what the calls of suggestOutputPath so far returned: one result per input,
\* the suffix before the extension, the directory and the extension kept
SuggestResults ==
    /\ \A i, j \in Suggests :
          calls[i].arg = calls[j].arg => calls[i].result = calls[j].result
    /\ \A k \in Suggests :
          /\ calls[k].result.name = calls[k].arg.name \o "_trimmed"
          /\ calls[k].result.ext = calls[k].arg.ext
          /\ calls[k].result.dir = normalize(calls[k].arg.dir)
          /\ format(calls[k].result) # format(calls[k].arg)
          /\ format(calls[k].result) #
                format([calls[k].arg EXCEPT !.dir = normalize(calls[k].arg.dir)])

\* C29: suggestOutputPath is deterministic and pure: the same input gives the
\* same result whatever is on disk, the disk is not touched, and the result is
\* the input with _trimmed put before the extension: same directory, same
\* extension, never the input path itself.
SuggestIsPure ==
    /\ []SuggestResults
    /\ [][(calls' # calls /\ calls'[Len(calls')].fn = "suggestOutputPath") =>
              (fs' = fs /\ SuggestResults')]_vars

\* the same input suggested twice with a file created in between, for a name
\* with two dots and a directory that is not normalized
WitnessSuggestedTwice ==
    /\ Len(calls) = 3
    /\ Suggests = {1, 3}
    /\ calls[1].arg = [dir |-> "C:/out/../v", name |-> "shot.final", ext |-> ".MOV"]
    /\ calls[3].arg = calls[1].arg
    /\ calls[3].files # calls[1].files
    /\ calls[3].result = [dir |-> "C:/v", name |-> "shot.final_trimmed", ext |-> ".MOV"]

----------------------------------------------------------------------------
(* Progress events between the main process and the renderer:             *)
(* trim:start / trim:overwrite in electron/main.ts, invokeWithProgress in *)
(* electron/preload.ts                                                     *)

IpcJobIds == {"a", "b"}

\* a channel name that does not hold the jobId
progressChannelShared(jobId) == "trim:progress"

\* `trim:progress:${request.jobId}`
progressChannel(jobId) == "trim:progress:" \o jobId

InitIpc ==
    /\ fs = [q \in {Clip} |-> "orig"]
    /\ EngineIdle
    /\ ShellIdle

\* invokeWithProgress up to the invoke: the listener, then the request
InvokeWithProgress(k) ==
    /\ jobs[k].state = "none"
    /\ \A m \in 1..(k - 1) : jobs[m].state # "none"
    /\ \E id \in IpcJobIds :
          /\ jobs' = [jobs EXCEPT ![k] = [jobId |-> id, state |-> "running", sent |-> 0]]
          /\ listeners' = listeners \cup {[channel |-> progressChannel(id), call |-> k]}
    /\ UNCHANGED <<wire, received, ipcFrame>>

\* the progress messages sent so far for the calls 1..k
RECURSIVE sentUpTo(_)
sentUpTo(k) == IF k = 0 THEN 0 ELSE jobs[k].sent + sentUpTo(k - 1)

\* the onProgress the handler hands to trimVideo / overwriteVideo
SendProgress(k) ==
    /\ jobs[k].state = "running"
    /\ sentUpTo(MaxJobs) < MaxEvents
    /\ jobs' = [jobs EXCEPT ![k].sent = @ + 1]
    /\ wire' = Append(wire, [kind |-> "progress",
                             channel |-> progressChannel(jobs[k].jobId), from |-> k])
    /\ UNCHANGED <<listeners, received, ipcFrame>>

\* how a call of trimVideo / overwriteVideo ends: ok=true, ok=false, rejection
Settlements == {"resolved-ok", "resolved-failed", "rejected"}

\* the promise of the handler settles: the reply of the invoke
SendReply(k) ==
    /\ jobs[k].state = "running"
    /\ jobs' = [jobs EXCEPT ![k].state = "replied"]
    /\ \E how \in Settlements :
          wire' = Append(wire, [kind |-> how, channel |-> "", from |-> k])
    /\ UNCHANGED <<listeners, received, ipcFrame>>

\* a listener that is never removed
removeListenerNever(ls, k) == ls

\* ipcRenderer.removeListener(progressChannel, onProgressMessage) of call k
removeListener(ls, k) == {l \in ls : l.call # k}

\* the renderer handles the next message: a progress message goes to the
\* listeners of its channel, a reply settles the call and removes its listener
Deliver ==
    /\ wire # <<>>
    /\ LET msg == Head(wire)
       IN  IF msg.kind = "progress"
           THEN /\ received' =
                      [m \in 1..MaxJobs |->
                          IF [channel |-> msg.channel, call |-> m] \in listeners
                          THEN Append(received[m], msg.from)
                          ELSE received[m]]
                /\ UNCHANGED <<jobs, listeners>>
           ELSE /\ jobs' = [jobs EXCEPT ![msg.from].state = msg.kind]
                /\ listeners' = removeListener(listeners, msg.from)
                /\ UNCHANGED received
    /\ wire' = Tail(wire)
    /\ UNCHANGED ipcFrame

NextIpc ==
    \/ \E k \in 1..MaxJobs : InvokeWithProgress(k)
    \/ \E k \in 1..MaxJobs : SendProgress(k)
    \/ \E k \in 1..MaxJobs : SendReply(k)
    \/ Deliver

SpecIpc == InitIpc /\ [][NextIpc]_vars

\* C24: with distinct jobIds, every progress event of a job reaches the
\* onProgress of that job's call and of no other call.
ProgressReachesItsOwnJob ==
    \A k \in 1..MaxJobs : \A i \in 1..Len(received[k]) :
        \/ received[k][i] = k
        \/ jobs[received[k][i]].jobId = jobs[k].jobId

\* two jobs with distinct jobIds in flight at once, each has got an event
WitnessTwoJobsInFlight ==
    /\ jobs[1].state = "running"
    /\ jobs[2].state = "running"
    /\ jobs[1].jobId # jobs[2].jobId
    /\ received[1] = <<1>>
    /\ received[2] = <<2>>

\* the calls of invokeWithProgress whose promise has not settled
CallsInFlight == {k \in 1..MaxJobs : jobs[k].state \in {"running", "replied"}}

\* C39: the progress listener of a call is registered from before its request
\* is sent until the call settles, with ok=true, with ok=false or with a
\* rejection, so that the registered listeners are those of the calls in
\* flight, one each, and onProgress is not invoked for a settled call.
ListenersAreCallsInFlight ==
    /\ [](listeners = {[channel |-> progressChannel(jobs[k].jobId), call |-> k] :
                          k \in CallsInFlight})
    /\ [](Cardinality(listeners) = Cardinality(CallsInFlight))
    /\ [][\A k \in 1..MaxJobs :
             jobs[k].state \in Settlements => received'[k] = received[k]]_vars

\* the first call has rejected; the second, with the same jobId, is in
\* flight and has got a progress event, the first has got none
WitnessRejectedCallHearsNothing ==
    /\ jobs[1].state = "rejected"
    /\ jobs[2].state = "running"
    /\ jobs[2].jobId = jobs[1].jobId
    /\ received[1] = <<>>
    /\ received[2] = <<2>>
    /\ Cardinality(listeners) = 1

----------------------------------------------------------------------------
(* trim:probe in electron/main.ts: validateInputVideo, then probeVideo *)

FfprobeNotFound == Err("ffprobe binary was not found.")
ProbeFailed == "Failed to probe video metadata."
SyntaxError == Err("SyntaxError: Unexpected end of JSON input")

\* the sections ffprobe -show_format -show_streams prints; a field the file
\* has no value for is left out
Durations == {"12.500000", "0.040000"}
FormatNames == {"mov,mp4,m4a,3gp,3g2,mj2"}

FormatSections ==
    {[filename |-> "clip"]}
    \cup {[filename |-> "clip", duration |-> d] : d \in Durations}
    \cup {[filename |-> "clip", format_name |-> n] : n \in FormatNames}
    \cup {[filename |-> "clip", duration |-> d, format_name |-> n] :
             d \in Durations, n \in FormatNames}

StreamKinds ==
    {[codec_type |-> "audio"],
     [codec_type |-> "subtitle"],
     [codec_type |-> "video", width |-> 1920, height |-> 1080],
     [codec_type |-> "video", width |-> 640, height |-> 360]}

StreamLists == UNION {[1..n -> StreamKinds] : n \in 0..MaxStreams}

ProbeObjects ==
    {[format |-> f, streams |-> l] : f \in FormatSections, l \in StreamLists}
    \cup {[format |-> f] : f \in FormatSections}
    \cup {[streams |-> l] : l \in StreamLists}

\* what the process writes to stdout: nothing, a text cut short, or an object
ProbeOutputs ==
    {[kind |-> "empty"], [kind |-> "cut"]}
    \cup {[kind |-> "json", value |-> o] : o \in ProbeObjects}

\* the stdout text as the chunks of the data events
chunksOf(out) ==
    CASE out.kind = "empty" -> <<>>
      [] out.kind = "cut" -> <<"{ streams: [">>
      [] OTHER -> <<"{ streams: [", "], format: { } }">>

Tools ==
    {[spawns |-> FALSE, code |-> 1, stderr |-> "", stdout |-> [kind |-> "empty"]]}
    \cup [spawns : {TRUE}, code : {0, 1}, stderr : {"", "moov atom not found"},
          stdout : ProbeOutputs]

\* JSON.parse of the text collected from a process that wrote out
JSONparse(text, out) ==
    IF out.kind = "json" /\ text = chunksOf(out)
    THEN [ok |-> TRUE, value |-> out.value]
    ELSE [ok |-> FALSE]

\* Number(string) on the decimal strings ffprobe prints, in milliseconds
Number(str) ==
    CASE str = "12.500000" -> 12500
      [] str = "0.040000" -> 40
      [] OTHER -> 0

has(obj, field) == field \in DOMAIN obj

RECURSIVE findLastFrom(_, _)
findLastFrom(streams, i) ==
    IF i = 0 THEN 0
    ELSE IF streams[i].codec_type = "video" THEN i
    ELSE findLastFrom(streams, i - 1)

\* the last video stream instead of the first
findLast(streams) == findLastFrom(streams, Len(streams))

RECURSIVE findFrom(_, _)
findFrom(streams, i) ==
    IF i > Len(streams) THEN 0
    ELSE IF streams[i].codec_type = "video" THEN i
    ELSE findFrom(streams, i + 1)

\* streams.find((stream) => stream.codec_type === "video"): its place, or 0
find(streams) == findFrom(streams, 1)

\* lines 194-201
probeResult(parsed) ==
    LET videoStream == IF has(parsed, "streams") THEN find(parsed.streams) ELSE 0
    IN  [durationSeconds |->
             IF has(parsed, "format") /\ has(parsed.format, "duration")
             THEN Number(parsed.format.duration)
             ELSE 0,
         width |-> IF videoStream # 0 /\ has(parsed.streams[videoStream], "width")
                   THEN parsed.streams[videoStream].width ELSE 0,
         height |-> IF videoStream # 0 /\ has(parsed.streams[videoStream], "height")
                    THEN parsed.streams[videoStream].height ELSE 0,
         format |-> IF has(parsed, "format") /\ has(parsed.format, "format_name")
                    THEN parsed.format.format_name ELSE "unknown"]

InitProbe ==
    /\ fs = InitialFs(Clip, {})
    /\ EngineIdle
    /\ PathsIdle
    /\ IpcIdle
    /\ RecentIdle
    /\ StampIdle
    /\ UiIdle
    /\ TempIdle
    /\ probePath \in InputPaths
    /\ ffprobe \in Tools
    /\ probePc = "validate"
    /\ json = <<>>
    /\ probeRuns = 0
    /\ probeSettles = <<>>
    /\ probeOutcome = ProbePending

\* resolve, reject or a throw in the async function: the first one settles
settle(o) ==
    /\ probeSettles' = Append(probeSettles, o)
    /\ probeOutcome' = IF probeOutcome.state = "pending" THEN o ELSE probeOutcome

\* main.ts line 242
PrValidate ==
    /\ probePc = "validate"
    /\ LET e == validateInputVideo(fs, probePath)
       IN  IF e # NoError
           THEN settle(ProbeRejected(e)) /\ probePc' = "done"
           ELSE probePc' = "probeVideo" /\ UNCHANGED <<probeSettles, probeOutcome>>
    /\ UNCHANGED <<probePath, ffprobe, json, probeRuns, probeFrame>>

\* lines 158-172: resolveFfprobePath, spawn
PrSpawn ==
    /\ probePc = "probeVideo"
    /\ \E found \in BOOLEAN :
          IF ~found
          THEN /\ settle(ProbeRejected(FfprobeNotFound))
               /\ probePc' = "done"
               /\ UNCHANGED <<json, probeRuns>>
          ELSE /\ probeRuns' = probeRuns + 1
               /\ json' = <<>>
               /\ probePc' = "running"
               /\ UNCHANGED <<probeSettles, probeOutcome>>
    /\ UNCHANGED <<probePath, ffprobe, probeFrame>>

\* child.on("error"): the process could not be spawned; close follows
PrError ==
    /\ probePc = "running"
    /\ ~ffprobe.spawns
    /\ settle(ProbeRejected(SpawnError))
    /\ probePc' = "errored"
    /\ UNCHANGED <<probePath, ffprobe, json, probeRuns, probeFrame>>

\* child.stdout.on("data")
PrStdout ==
    /\ probePc = "running"
    /\ ffprobe.spawns
    /\ Len(json) < Len(chunksOf(ffprobe.stdout))
    /\ json' = Append(json, chunksOf(ffprobe.stdout)[Len(json) + 1])
    /\ UNCHANGED <<probePath, ffprobe, probePc, probeRuns, probeSettles, probeOutcome,
                   probeFrame>>

\* a close handler that launches ffprobe again after a non-zero exit
PrCloseRetry ==
    /\ \/ probePc = "errored"
       \/ probePc = "running" /\ ffprobe.spawns /\ json = chunksOf(ffprobe.stdout)
    /\ LET code == IF probePc = "errored" THEN -1 ELSE ffprobe.code
           parsed == JSONparse(json, ffprobe.stdout)
       IN  IF code # 0 /\ probeRuns < 2
           THEN /\ probeRuns' = probeRuns + 1
                /\ json' = <<>>
                /\ probePc' = "running"
                /\ UNCHANGED <<probeSettles, probeOutcome>>
           ELSE /\ IF code # 0
                   THEN settle(ProbeRejected(Err(IF ffprobe.stderr # "" THEN ffprobe.stderr
                                                 ELSE ProbeFailed)))
                   ELSE IF parsed.ok
                   THEN settle(ProbeResolved(probeResult(parsed.value)))
                   ELSE settle(ProbeRejected(SyntaxError))
                /\ probePc' = "done"
                /\ UNCHANGED <<json, probeRuns>>
    /\ UNCHANGED <<probePath, ffprobe, probeFrame>>

\* child.on("close"), after the streams have ended: lines 183-205
PrClose ==
    /\ \/ probePc = "errored"
       \/ probePc = "running" /\ ffprobe.spawns /\ json = chunksOf(ffprobe.stdout)
    /\ LET code == IF probePc = "errored" THEN -1 ELSE ffprobe.code
           parsed == JSONparse(json, ffprobe.stdout)
       IN  IF code # 0
           THEN settle(ProbeRejected(Err(IF ffprobe.stderr # "" THEN ffprobe.stderr
                                         ELSE ProbeFailed)))
           ELSE IF parsed.ok
           THEN settle(ProbeResolved(probeResult(parsed.value)))
           ELSE settle(ProbeRejected(SyntaxError))
    /\ probePc' = "done"
    /\ UNCHANGED <<probePath, ffprobe, json, probeRuns, probeFrame>>

NextProbe == PrValidate \/ PrSpawn \/ PrError \/ PrStdout \/ PrClose

SpecProbe == InitProbe /\ [][NextProbe]_vars

\* the object the process printed
Printed == ffprobe.stdout.value

VideoStreams == {i \in 1..Len(Printed.streams) : Printed.streams[i].codec_type = "video"}

\* C26: for an output with a format and a streams section, probeVideo returns
\* the format duration, or 0 when there is none; the width and height of the
\* first stream of type video, or 0 when there is none; the format name.
ProbeResultFollowsOutput ==
    (probeOutcome.state = "resolved" /\ has(Printed, "format") /\ has(Printed, "streams")) =>
        LET r == probeOutcome.value
        IN  /\ has(Printed.format, "duration") =>
                  r.durationSeconds = Number(Printed.format.duration)
            /\ ~has(Printed.format, "duration") => r.durationSeconds = 0
            /\ VideoStreams = {} => (r.width = 0 /\ r.height = 0)
            /\ \A i \in VideoStreams :
                  (\A j \in VideoStreams : i <= j) =>
                      /\ r.width = Printed.streams[i].width
                      /\ r.height = Printed.streams[i].height
            /\ has(Printed.format, "format_name") => r.format = Printed.format.format_name

\* two video streams of different sizes and no duration: the first one counts
WitnessFirstOfTwoVideoStreams ==
    /\ probeOutcome.state = "resolved"
    /\ has(Printed, "format") /\ has(Printed, "streams")
    /\ ~has(Printed.format, "duration")
    /\ Len(Printed.streams) = 2
    /\ VideoStreams = {1, 2}
    /\ Printed.streams[1].width # Printed.streams[2].width
    /\ probeOutcome.value.width = 1920
    /\ probeOutcome.value.durationSeconds = 0

\* the call cannot succeed: the path, the process or its output is bad
ProbeMustFail ==
    \/ validateInputVideo(fs, probePath) # NoError
    \/ probeRuns > 0 /\ ~ffprobe.spawns
    \/ probeRuns > 0 /\ ffprobe.code # 0
    \/ probeRuns > 0 /\ ffprobe.stdout.kind # "json"

\* C27: trim:probe fails without a retry for a missing or unsupported path, a
\* non-zero exit and an output that does not parse: ffprobe is launched at
\* most once, never for a missing or unsupported path, and the call settles
\* once.
ProbeFailsWithoutRetry ==
    /\ probeRuns <= 1
    /\ validateInputVideo(fs, probePath) # NoError => probeRuns = 0
    /\ probeOutcome = IF probeSettles = <<>> THEN ProbePending ELSE probeSettles[1]
    /\ probePc = "done" => probeOutcome.state # "pending"
    /\ probeOutcome.state # "pending" => probePc \in {"done", "errored"}
    /\ (probePc = "done" /\ ProbeMustFail) => probeOutcome.state = "rejected"

\* the spawn failed: the error handler rejected, the close handler rejected
\* again, and the call is settled with the first
WitnessProbeSpawnFailed ==
    /\ probePc = "done"
    /\ probeRuns = 1
    /\ ~ffprobe.spawns
    /\ Len(probeSettles) = 2
    /\ probeOutcome = ProbeRejected(SpawnError)
    /\ probeSettles[2] # probeOutcome

----------------------------------------------------------------------------
(* The recent-files list: src/main/services/recentFiles.ts *)

MAX_RECENT == 10

\* the k-th file the user opens
OpenedFile(k) == "C:/v/f" \o ToString(k) \o ".mp4"

\* path.resolve: an absolute, normalized path
resolve(filePath) ==
    CASE filePath = "C:/v/./f1.mp4" -> "C:/v/f1.mp4"
      [] filePath = "C:/v/sub/../f2.mp4" -> "C:/v/f2.mp4"
      [] OTHER -> filePath

\* current.filter((f) => f !== normalized)
RECURSIVE filter(_, _)
filter(current, normalized) ==
    IF current = <<>> THEN <<>>
    ELSE IF Head(current) = normalized THEN filter(Tail(current), normalized)
    ELSE <<Head(current)>> \o filter(Tail(current), normalized)

\* slice(0, n)
slice(list, n) == SubSeq(list, 1, IF Len(list) < n THEN Len(list) ELSE n)

\* the list without the filter of line 38
updatedNoFilter(normalized, current) == slice(<<normalized>> \o current, MAX_RECENT)

\* line 38
updated(normalized, current) ==
    slice(<<normalized>> \o filter(current, normalized), MAX_RECENT)

\* the paths addRecentFile is called with: the next file never opened before,
\* or one of the first two again, as first written or in another spelling
RecentInputs ==
    {OpenedFile(k) : k \in {Len(recency) + 1} \cap 1..MaxPaths}
    \cup {p \in {"C:/v/f1.mp4", "C:/v/./f1.mp4", "C:/v/sub/../f2.mp4"} :
             resolve(p) \in Range(recency)}

InitRecent ==
    /\ fs = InitialFs(Clip, {})
    /\ EngineIdle
    /\ ShellIdle

\* addRecentFile(filePath); readStore gives [] when the file cannot be read,
\* writeStore ignores a failed write
AddRecentFile ==
    \E filePath \in RecentInputs, readOk \in BOOLEAN, writeOk \in BOOLEAN :
        LET normalized == resolve(filePath)
            current == IF readOk THEN store ELSE <<>>
        IN  /\ store # <<>> \/ readOk
            /\ store' = IF writeOk THEN updated(normalized, current) ELSE store
            /\ recency' = IF writeOk
                          THEN <<normalized>> \o filter(recency, normalized)
                          ELSE recency
            /\ lastCall' = [path |-> normalized, wrote |-> writeOk]
            /\ UNCHANGED recentFrame

NextRecent == AddRecentFile

SpecRecent == InitRecent /\ [][NextRecent]_vars

\* where a path stands in a list, 0 when it is not in it
Pos(list, x) == IF \E i \in 1..Len(list) : list[i] = x
                THEN CHOOSE i \in 1..Len(list) : list[i] = x
                ELSE 0

\* at most MAX_RECENT paths, no path twice, the later stored the nearer the head
RecentListShape ==
    /\ Len(store) <= MAX_RECENT
    /\ \A i, j \in 1..Len(store) : i < j => store[i] # store[j]
    /\ \A i \in 1..Len(store) : Pos(recency, store[i]) # 0
    /\ \A i, j \in 1..Len(store) :
          i < j => Pos(recency, store[i]) < Pos(recency, store[j])

----------------------------------------------------------------------------
(* timestampFromSeconds on its own *)

\* the arguments tried, in ticks: negative ones, whole milliseconds, and the
\* values around the end of a minute and of an hour
StampInputs ==
    {-20000000, -1, 0, 4, 5, 10000, 10010, 610015, 36610015}
    \cup ((60 * TicksPerSecond - 30)..(60 * TicksPerSecond + 30))
    \cup ((3600 * TicksPerSecond - 30)..(3600 * TicksPerSecond + 30))

InitStamp ==
    /\ fs = InitialFs(Clip, {})
    /\ EngineIdle
    /\ PathsIdle /\ IpcIdle /\ ProbeIdle /\ RecentIdle /\ UiIdle /\ TempIdle
    /\ totalSeconds \in StampInputs
    /\ stamp = NoStamp

CallTimestampFromSeconds ==
    /\ stamp = NoStamp
    /\ stamp' = timestampFromSeconds(totalSeconds)
    /\ UNCHANGED <<totalSeconds, stampFrame>>

NextStamp == CallTimestampFromSeconds

SpecStamp == InitStamp /\ [][NextStamp]_vars

\* the time a stamp denotes, in milliseconds
Denotes(st) == st.hh * 3600000 + st.mm * 60000 + st.ss

\* C32 as claimed: the stamp denotes the argument, clamped at 0 and rounded
\* to the millisecond, in the form HH:MM:SS.mmm with minutes in 00..59 and a
\* seconds field strictly below 60.000; a negative argument gives 00:00:00.000.
StampIsWellFormed ==
    stamp # NoStamp =>
        /\ Denotes(stamp) = toFixed3(IF totalSeconds > 0 THEN totalSeconds ELSE 0)
        /\ stamp.hh \in 0..99
        /\ stamp.mm \in 0..59
        /\ stamp.ss >= 0 /\ stamp.ss < 60000
        /\ totalSeconds < 0 => stamp = [hh |-> 0, mm |-> 0, ss |-> 0]

----------------------------------------------------------------------------
(* The window: src/renderer/App.tsx and src/renderer/utils/math.ts *)

TRIM_EPSILON_SECONDS == 10

MathMax(a, b) == IF a >= b THEN a ELSE b
MathMin(a, b) == IF a <= b THEN a ELSE b

clamp(value, min, max) == MathMax(min, MathMin(max, value))

\* the range without the minimum window
normalizeTrimRangeNoWindow(range, duration) ==
    LET maxDuration == MathMax(0, duration)
        start == clamp(range.start, 0, maxDuration)
    IN  [start |-> start, end |-> clamp(range.end, start, maxDuration)]

normalizeTrimRange(range, duration) ==
    LET maxDuration == MathMax(0, duration)
        minWindow == MathMin(TRIM_EPSILON_SECONDS, maxDuration)
        maxStart == MathMax(0, maxDuration - minWindow)
        start == clamp(range.start, 0, maxStart)
        end == clamp(range.end, start + minWindow, maxDuration)
    IN  [start |-> start, end |-> end]

\* the files the user opens, the durations ffprobe reports for them (0 when
\* it reports none), and the values the handles and shortcuts pass
UiFiles == {"C:/v/clip.mp4"}
UiDurations == {0, 4, 1000}
HandleValues == {-5, 500, 2000}

\* what a render of App computes from its state
duration == IF probe = NoProbe THEN 0 ELSE probe.durationSeconds
normalizedTrimRange == normalizeTrimRange(trimRange, duration)
startSeconds == normalizedTrimRange.start
endSeconds == normalizedTrimRange.end
disableSaveActions ==
    uiInputPath = "" \/ probe = NoProbe \/ isTrimming \/ endSeconds <= startSeconds

InitUi ==
    /\ fs = InitialFs(Clip, {})
    /\ EngineIdle
    /\ ShellIdle

\* a sequence without its i-th element
RemoveAt(seq, i) == SubSeq(seq, 1, i - 1) \o SubSeq(seq, i + 1, Len(seq))

\* a call of loadVideo: where it stands and whether a save action awaits it
Load(path, at, awaited) == [path |-> path, pc |-> at, awaited |-> awaited]

\* a call of a save action: where it stands, and the values of its closure,
\* which are those of the request it submits; load is the place in loads of
\* the loadVideo it awaits
Closure(kind, at, path, start, end, load) ==
    [kind |-> kind, pc |-> at, inputPath |-> path,
     startSeconds |-> start, endSeconds |-> end, load |-> load]

\* the calls of loadVideo that have not returned, without the l-th, and the
\* save actions pointing at the places that remain
loadReturned(l) ==
    /\ loads' = RemoveAt(loads, l)
    /\ saves' = [j \in 1..Len(saves) |->
                    IF saves[j].load > l
                    THEN [saves[j] EXCEPT !.load = saves[j].load - 1]
                    ELSE saves[j]]

\* a call of loadVideo returns: it is forgotten, unless a save action awaits it
loadDone(l) ==
    IF loads[l].awaited
    THEN /\ loads' = [loads EXCEPT ![l] = Load("", "done", TRUE)]
         /\ UNCHANGED saves
    ELSE loadReturned(l)

\* the calls the user started that have not returned
PendingCalls == Len(saves) + Cardinality({l \in 1..Len(loads) : ~loads[l].awaited})

\* a video is opened: dropped, picked in the dialog or in the recent list,
\* or handed over by the main process; loadVideo runs up to its first await
OpenVideo ==
    /\ PendingCalls < MaxPending
    /\ \E nextPath \in UiFiles :
        /\ uiInputPath' = nextPath
        /\ loads' = Append(loads, Load(nextPath, "probe", FALSE))
    /\ UNCHANGED <<probe, trimRange, uiOutputPath, isTrimming, saves, uiFrame>>

\* loadVideo after probeVideo settled
LoadProbed(l) ==
    /\ loads[l].pc = "probe"
    /\ \/ \E d \in UiDurations :
            /\ probe' = [durationSeconds |-> d]
            /\ trimRange' = normalizeTrimRange([start |-> 0, end |-> d], d)
            /\ loads' = [loads EXCEPT ![l].pc = "suggest"]
            /\ UNCHANGED <<uiOutputPath, saves>>
       \/ /\ probe' = NoProbe
          /\ trimRange' = [start |-> 0, end |-> 0]
          /\ uiOutputPath' = ""
          /\ loadDone(l)
    /\ UNCHANGED <<uiInputPath, isTrimming, uiFrame>>

\* loadVideo after suggestOutputPath settled; the recent-files calls that
\* follow change nothing of this state
LoadSuggested(l) ==
    /\ loads[l].pc = "suggest"
    /\ uiOutputPath' = loads[l].path \o "_trimmed"
    /\ loadDone(l)
    /\ UNCHANGED <<uiInputPath, probe, trimRange, isTrimming, uiFrame>>

\* a handle of the timeline is dragged, or a shortcut moves it
HandleTrimStartChange ==
    /\ probe # NoProbe
    /\ ~isTrimming
    /\ \E value \in HandleValues :
        trimRange' = normalizeTrimRange([start |-> value, end |-> trimRange.end], duration)
    /\ UNCHANGED <<uiInputPath, probe, uiOutputPath, isTrimming, loads, saves, uiFrame>>

HandleTrimEndChange ==
    /\ probe # NoProbe
    /\ ~isTrimming
    /\ \E value \in HandleValues :
        trimRange' = normalizeTrimRange([start |-> trimRange.start, end |-> value], duration)
    /\ UNCHANGED <<uiInputPath, probe, uiOutputPath, isTrimming, loads, saves, uiFrame>>

\* the Close video button, shown whenever a probe is set
CloseVideo ==
    /\ probe # NoProbe
    /\ probe' = NoProbe
    /\ uiInputPath' = ""
    /\ trimRange' = [start |-> 0, end |-> 0]
    /\ uiOutputPath' = ""
    /\ isTrimming' = FALSE
    /\ UNCHANGED <<loads, saves, uiFrame>>

\* the Save Copy button, up to the await of trimVideo
OnSaveCopy ==
    /\ probe # NoProbe
    /\ ~disableSaveActions
    /\ PendingCalls < MaxPending
    /\ uiInputPath # "" /\ uiOutputPath # ""
    /\ isTrimming' = TRUE
    /\ saves' = Append(saves, Closure("trim", "await_job", uiInputPath,
                                       startSeconds, endSeconds, 0))
    /\ UNCHANGED <<uiInputPath, probe, trimRange, uiOutputPath, loads, uiFrame>>

\* the Overwrite Original button, confirmed, up to the await of the timer
OnOverwriteOriginal ==
    /\ probe # NoProbe
    /\ ~disableSaveActions
    /\ PendingCalls < MaxPending
    /\ uiInputPath # ""
    /\ isTrimming' = TRUE
    /\ saves' = Append(saves, Closure("overwrite", "await_timer", uiInputPath,
                                       startSeconds, endSeconds, 0))
    /\ UNCHANGED <<uiInputPath, probe, trimRange, uiOutputPath, loads, uiFrame>>

\* the 75 ms timer fired: overwriteVideo is called with the values of the click
OverwriteTimer(j) ==
    /\ saves[j].pc = "await_timer"
    /\ saves' = [saves EXCEPT ![j].pc = "await_job"]
    /\ UNCHANGED <<uiInputPath, probe, trimRange, uiOutputPath, isTrimming, loads, uiFrame>>

\* the finally block of a save action, and its return
return(j) ==
    /\ isTrimming' = FALSE
    /\ saves' = RemoveAt(saves, j)

\* trimVideo / overwriteVideo settled: with ok=true the action goes on, with
\* ok=false or a rejection it ends in catch and finally
SaveSettled(j) ==
    /\ saves[j].pc = "await_job"
    /\ \E ok \in BOOLEAN :
        IF ~ok
        THEN /\ return(j)
             /\ UNCHANGED <<uiInputPath, loads>>
        ELSE IF saves[j].kind = "trim"
        THEN /\ saves' = [saves EXCEPT ![j] =
                              Closure("trim", "await_suggest", saves[j].inputPath, 0, 0, 0)]
             /\ UNCHANGED <<uiInputPath, loads, isTrimming>>
        ELSE /\ uiInputPath' = saves[j].inputPath
             /\ loads' = Append(loads, Load(saves[j].inputPath, "probe", TRUE))
             /\ saves' = [saves EXCEPT ![j] =
                              Closure("overwrite", "await_load", "", 0, 0, Len(loads) + 1)]
             /\ UNCHANGED isTrimming
    /\ UNCHANGED <<probe, trimRange, uiOutputPath, uiFrame>>

\* onSaveCopy after suggestOutputPath settled
SaveSuggested(j) ==
    /\ saves[j].pc = "await_suggest"
    /\ uiOutputPath' = saves[j].inputPath \o "_trimmed"
    /\ return(j)
    /\ UNCHANGED <<uiInputPath, probe, trimRange, loads, uiFrame>>

\* onOverwriteOriginal after its loadVideo returned
SaveReloaded(j) ==
    /\ saves[j].pc = "await_load"
    /\ loads[saves[j].load].pc = "done"
    /\ isTrimming' = FALSE
    /\ loads' = RemoveAt(loads, saves[j].load)
    /\ saves' = RemoveAt([i \in 1..Len(saves) |->
                             IF saves[i].load > saves[j].load
                             THEN [saves[i] EXCEPT !.load = saves[i].load - 1]
                             ELSE saves[i]], j)
    /\ UNCHANGED <<uiInputPath, probe, trimRange, uiOutputPath, uiFrame>>

NextUi ==
    \/ OpenVideo
    \/ \E l \in 1..Len(loads) : LoadProbed(l)
    \/ \E l \in 1..Len(loads) : LoadSuggested(l)
    \/ HandleTrimStartChange
    \/ HandleTrimEndChange
    \/ CloseVideo
    \/ OnSaveCopy
    \/ OnOverwriteOriginal
    \/ \E j \in 1..Len(saves) : OverwriteTimer(j)
    \/ \E j \in 1..Len(saves) : SaveSettled(j)
    \/ \E j \in 1..Len(saves) : SaveSuggested(j)
    \/ \E j \in 1..Len(saves) : SaveReloaded(j)

SpecUi == InitUi /\ [][NextUi]_vars

\* the requests that are with the main process
InFlight == {j \in 1..Len(saves) : saves[j].pc = "await_job"}

JobsAreSerialized ==
    /\ Cardinality(InFlight) <= 1
    /\ saves = <<>> => ~isTrimming

----------------------------------------------------------------------------
(* overwriteVideo calls side by side: the temp output and backup paths *)

\* the jobIds makeJobId of the renderer returns, `${Date.now()}-${hex}`, and
\* other strings a caller may pass as jobId
MadeJobIds == {"1730-a3f", "1731-b07"}
OtherJobIds == {"1730-a3f_1", "1730-a3f.trim-1731-b07"}

\* a temp output an earlier call left behind, opened as a video
Leftover == makeOverwriteTempPath(Clip, "1730-a3f")

OverwriteInputs == {Clip, Leftover}

InitTemp ==
    /\ \E others \in SUBSET {Leftover} : fs = InitialFs(Clip, others)
    /\ EngineIdle
    /\ PathsIdle /\ IpcIdle /\ ProbeIdle /\ RecentIdle /\ StampIdle /\ UiIdle
    /\ overwrites = <<>>

\* overwriteVideo up to the call of trimVideo, lines 298-302
OverwritePaths ==
    /\ Len(overwrites) < MaxJobs
    /\ \E inputPath \in OverwriteInputs, jobId \in MadeJobIds \cup OtherJobIds :
        LET temp == findAvailableOutputPath(fs, makeOverwriteTempPath(inputPath, jobId))
            backup == findAvailableOutputPath(fs, bakPath(inputPath))
        IN  /\ validateInputVideo(fs, inputPath) = NoError
            /\ overwrites' = Append(overwrites,
                   [inputPath |-> inputPath, jobId |-> jobId,
                    tempOutputPath |-> temp, backupPath |-> backup,
                    free |-> ~existsSync(fs, temp) /\ ~existsSync(fs, backup),
                    opened |-> FALSE])
    /\ UNCHANGED <<fs, tempFrame>>

\* the ffmpeg of a call opens its temp output
TempOutputOpened(k) ==
    /\ ~overwrites[k].opened
    /\ fs' = WriteFile(fs, overwrites[k].tempOutputPath, "partial")
    /\ overwrites' = [overwrites EXCEPT ![k].opened = TRUE]
    /\ UNCHANGED tempFrame

NextTemp ==
    \/ OverwritePaths
    \/ \E k \in 1..Len(overwrites) : TempOutputOpened(k)

SpecTemp == InitTemp /\ [][NextTemp]_vars

\* what C37 says of each call: three distinct paths in one directory, temp
\* and backup free when computed, the extension of the input on the temp
PathsOfOneCall(o) ==
    /\ fileOf(o.tempOutputPath) # fileOf(o.inputPath)
    /\ fileOf(o.backupPath) # fileOf(o.inputPath)
    /\ fileOf(o.tempOutputPath) # fileOf(o.backupPath)
    /\ normalize(dirname(o.tempOutputPath)) = normalize(dirname(o.inputPath))
    /\ normalize(dirname(o.backupPath)) = normalize(dirname(o.inputPath))
    /\ o.free
    /\ extname(o.tempOutputPath) = extname(o.inputPath)

====
